---- MODULE Spec2Model ----
(***************************************************************************)
(* pit-core: the interface description language of portal interface types. *)
(* The module models the attribute grammar, the type grammar with its      *)
(* canonical renderer and content address, the generic mangling codec and  *)
(* the metadata merge tree, as the Rust sources compute them.              *)
(*                                                                         *)
(* A Rust string is a sequence of one-character strings; a parser takes    *)
(* the text t and the index i of the next character and returns either     *)
(* Ok(pos, val), pos being the index of the first unconsumed character     *)
(* (the remaining input is SubSeq(t, pos, Len(t))), or Err.                *)
(***************************************************************************)
EXTENDS Integers, Sequences, FiniteSets, TLC

\* ------------------------------------------------------------------------
\* State
\* ------------------------------------------------------------------------

\* The type grammar: an interface built by a caller, rendered and parsed.
VARIABLES
  iface,   \* the Interface value built by the caller
  phase,   \* "idle", "build", "rendered", "written", "parsed", "resty"
  text,    \* the text rendered or written: RenderPanic or Rendered(t)
  res      \* the parser's result

ifaceVars == << iface, phase, text, res >>

\* Mangling: an Arity or Param built by a caller, mangled and demangled.
VARIABLES
  mkind,   \* "Arity" or "Param": what is being mangled
  mval,    \* the value built by the caller
  mphase,  \* "idle", "build", "mangled", "demangled"
  mtext,   \* the mangled text
  mres     \* the result of demangle

mangleVars == << mkind, mval, mphase, mtext, mres >>

\* Merging: three Info values built by a caller and merged.
VARIABLES
  ia, ib, ic,  \* three Info values built by the caller
  gphase,      \* "idle", "build", "merged", "shown", "read"
  out          \* the results of the merges, or the text shown and read

mergeVars == << ia, ib, ic, gphase, out >>

vars == << iface, phase, text, res, mkind, mval, mphase, mtext, mres, ia, ib, ic, gphase, out >>

\* ------------------------------------------------------------------------
\* Characters and strings
\* ------------------------------------------------------------------------

\* The printable ASCII characters, in byte order: Printable[k] is byte 31 + k
\* (bytes 92 and 96, the backslash and the backtick, are held by names: no
\* text here contains them).
Printable ==
  << " ", "!", "\"", "#", "$", "%", "&", "'", "(", ")", "*", "+", ",", "-", ".", "/",
     "0", "1", "2", "3", "4", "5", "6", "7", "8", "9", ":", ";", "<", "=", ">", "?",
     "@", "A", "B", "C", "D", "E", "F", "G", "H", "I", "J", "K", "L", "M", "N", "O",
     "P", "Q", "R", "S", "T", "U", "V", "W", "X", "Y", "Z", "[", "backslash", "]", "^", "_",
     "backtick", "a", "b", "c", "d", "e", "f", "g", "h", "i", "j", "k", "l", "m", "n", "o",
     "p", "q", "r", "s", "t", "u", "v", "w", "x", "y", "z", "{", "|", "}", "~" >>

\* The byte of each character (Rust compares strings by their bytes).
ByteOf ==
  [c \in {Printable[k] : k \in 1..Len(Printable)} \cup {"\t", "\n", "\r"} |->
     CASE c = "\t" -> 9
       [] c = "\n" -> 10
       [] c = "\r" -> 13
       [] OTHER -> 31 + (CHOOSE k \in 1..Len(Printable) : Printable[k] = c)]

\* char::is_ascii_digit, is_ascii_alphabetic, nom AsChar::is_alphanum
DigitChars == {Printable[k] : k \in 17..26}
AlphaChars == {Printable[k] : k \in 34..59} \cup {Printable[k] : k \in 66..91}
AlnumChars == DigitChars \cup AlphaChars

\* The characters ident accepts: alphanumeric, '_', '$' and '.'.
IdentChars == AlnumChars \cup {"_", "$", "."}

\* char::is_digit(16)
HexChars == DigitChars \cup {"a", "b", "c", "d", "e", "f"} \cup {"A", "B", "C", "D", "E", "F"}

\* nom multispace: space, tab, carriage return, line feed.
SpaceChars == {" ", "\t", "\r", "\n"}

\* The value of one hexadecimal digit (char::to_digit(16)).
HexVal(c) ==
  IF c \in DigitChars THEN ByteOf[c] - 48
  ELSE IF ByteOf[c] >= 97 THEN ByteOf[c] - 87 ELSE ByteOf[c] - 55

\* The lowercase hexadecimal digit of a value 0..15 (hex::encode, {:x}).
HexDigit(n) == << "0", "1", "2", "3", "4", "5", "6", "7", "8", "9", "a", "b", "c", "d", "e", "f" >>[n + 1]

RECURSIVE StrLess(_, _)
\* a < b for Rust strings: lexicographic on bytes, a proper prefix being less.
StrLess(a, b) ==
  IF b = << >> THEN FALSE
  ELSE IF a = << >> THEN TRUE
  ELSE IF ByteOf[Head(a)] # ByteOf[Head(b)] THEN ByteOf[Head(a)] < ByteOf[Head(b)]
  ELSE StrLess(Tail(a), Tail(b))

RECURSIVE Concat(_)
\* The concatenation of a sequence of strings (String::join(""), repeated write!).
Concat(ss) == IF ss = << >> THEN << >> ELSE Head(ss) \o Concat(Tail(ss))

RECURSIVE Join(_, _)
\* The strings of ss separated by sep.
Join(ss, sep) ==
  IF ss = << >> THEN << >>
  ELSE IF Len(ss) = 1 THEN ss[1]
  ELSE ss[1] \o sep \o Join(Tail(ss), sep)

\* ------------------------------------------------------------------------
\* Parser results and the nom combinators used
\* ------------------------------------------------------------------------

Ok(p, v) == [ok |-> TRUE, pos |-> p, val |-> v]
Err == [ok |-> FALSE]

\* let r = v; followed by the rest of the function body F, which reads r.
Bind(v, F(_)) == F(v)

\* tag(p) / strip_prefix(p) at index i
StartsWith(t, i, p) == i + Len(p) - 1 <= Len(t) /\ SubSeq(t, i, i + Len(p) - 1) = p

RECURSIVE RunEnd(_, _, _)
\* The index after the longest run of characters of class S starting at i.
RunEnd(t, i, S) == IF i <= Len(t) /\ t[i] \in S THEN RunEnd(t, i + 1, S) ELSE i

\* multispace0: never fails; the index after the leading whitespace.
multispace0(t, i) == RunEnd(t, i, SpaceChars)

\* ident: one or more identifier characters.
ident(t, i) ==
  Bind(RunEnd(t, i, IdentChars), LAMBDA j :
    IF j = i THEN Err ELSE Ok(j, SubSeq(t, i, j - 1)))

\* alphanumeric1: one or more alphanumeric characters.
alphanumeric1(t, i) ==
  Bind(RunEnd(t, i, AlnumChars), LAMBDA j :
    IF j = i THEN Err ELSE Ok(j, SubSeq(t, i, j - 1)))

\* ------------------------------------------------------------------------
\* Attribute grammar
\* ------------------------------------------------------------------------

Attr(n, v) == [name |-> n, value |-> v]

RECURSIVE BalancedEnd(_, _, _)
\* The loop of parse_balanced: a is the next index, d the bracket depth i.
\* 0 when the input ends first (anychar fails), else the index of the
\* closing bracket met at depth 0, which is not consumed.
BalancedEnd(t, a, d) ==
  IF a > Len(t) THEN 0
  ELSE IF t[a] = "]" /\ d = 0 THEN a
  ELSE BalancedEnd(t, a + 1, IF t[a] = "[" THEN d + 1 ELSE IF t[a] = "]" THEN d - 1 ELSE d)

RECURSIVE FirstCloseEnd(_, _)
\* The index of the first closing bracket at or after a, 0 when there is none.
FirstCloseEnd(t, a) ==
  IF a > Len(t) THEN 0 ELSE IF t[a] = "]" THEN a ELSE FirstCloseEnd(t, a + 1)

\* A scan that does not count depth and ends the value at the first closing
\* bracket, unlike parse_balanced.
parse_balanced_FirstClose(t, i) ==
  Bind(FirstCloseEnd(t, i), LAMBDA e :
    IF e = 0 THEN Err ELSE Ok(e, SubSeq(t, i, e - 1)))

\* parse_balanced: the characters pushed to v are those of t from i up to the
\* closing bracket.
parse_balanced(t, i) ==
  Bind(BalancedEnd(t, i, 0), LAMBDA e :
    IF e = 0 THEN Err ELSE Ok(e, SubSeq(t, i, e - 1)))

RECURSIVE NotEqEnd(_, _)
\* many0(none_of("=")): the index of the first '=' at or after i, or the end.
NotEqEnd(t, i) == IF i <= Len(t) /\ t[i] # "=" THEN NotEqEnd(t, i + 1) ELSE i

\* parse_attr: [name=value] with optional whitespace around the parts.
parse_attr(t, i) ==
  Bind(multispace0(t, i), LAMBDA a1 :
    IF ~StartsWith(t, a1, << "[" >>) THEN Err
    ELSE
      Bind(multispace0(t, a1 + 1), LAMBDA a2 :
      Bind(NotEqEnd(t, a2), LAMBDA a3 :
      Bind(multispace0(t, a3), LAMBDA a4 :
        IF ~StartsWith(t, a4, << "=" >>) THEN Err
        ELSE
          Bind(parse_balanced(t, multispace0(t, a4 + 1)), LAMBDA b :
            IF ~b.ok THEN Err
            ELSE IF ~StartsWith(t, b.pos, << "]" >>) THEN Err
            ELSE Ok(multispace0(t, b.pos + 1), Attr(SubSeq(t, a2, a3 - 1), b.val)))))))

RECURSIVE Many0Attr(_, _, _)
\* many0(parse_attr): stops at the first error, keeping what was read.
Many0Attr(t, i, acc) ==
  Bind(parse_attr(t, i), LAMBDA r :
    IF ~r.ok THEN Ok(i, acc)
    ELSE IF r.pos = i THEN Err
    ELSE Many0Attr(t, r.pos, Append(acc, r.val)))

RECURSIVE InsertByName_BeforeEqual(_, _)
\* An insertion that puts x before the elements of its own name, unlike the
\* stable sort of parse_attrs.
InsertByName_BeforeEqual(s, x) ==
  IF s = << >> THEN << x >>
  ELSE IF ~StrLess(Head(s).name, x.name) THEN << x >> \o s
  ELSE << Head(s) >> \o InsertByName_BeforeEqual(Tail(s), x)

RECURSIVE InsertByName(_, _)
\* x put into the name-sorted list s after every element whose name is not greater.
InsertByName(s, x) ==
  IF s = << >> THEN << x >>
  ELSE IF StrLess(x.name, Head(s).name) THEN << x >> \o s
  ELSE << Head(s) >> \o InsertByName(Tail(s), x)

RECURSIVE SortByName(_)
\* sort_by_key(|a| a.name.clone()): a stable sort by name.
SortByName(s) ==
  IF s = << >> THEN << >>
  ELSE InsertByName(SortByName(SubSeq(s, 1, Len(s) - 1)), s[Len(s)])

RECURSIVE DedupByName(_)
\* Of the attributes of a sorted list that follow each other with one name,
\* the last only.
DedupByName(s) ==
  IF Len(s) <= 1 THEN s
  ELSE IF s[1].name = s[2].name THEN DedupByName(Tail(s))
  ELSE << s[1] >> \o DedupByName(Tail(s))

\* A reader that keeps one attribute per name, unlike parse_attrs.
parse_attrs_Dedup(t, i) ==
  Bind(Many0Attr(t, i, << >>), LAMBDA r :
    IF ~r.ok THEN Err ELSE Ok(r.pos, DedupByName(SortByName(r.val))))

\* parse_attrs: zero or more attributes, sorted by name.
parse_attrs(t, i) ==
  Bind(Many0Attr(t, i, << >>), LAMBDA r :
    IF ~r.ok THEN Err ELSE Ok(r.pos, SortByName(r.val)))

\* impl Display for Attr
AttrText(a) == << "[" >> \o a.name \o << "=" >> \o a.value \o << "]" >>

\* The attributes of a list written one after the other.
AttrsText(s) == Concat([k \in 1..Len(s) |-> AttrText(s[k])])

\* ------------------------------------------------------------------------
\* Versioned capabilities (Attr::as_ver)
\* ------------------------------------------------------------------------

\* A usize is held as its hexadecimal digits (values 0..15), most significant
\* first, without leading zeros; zero is the empty sequence. UsizeHexDigits is
\* the number of hexadecimal digits of usize::MAX on a 64-bit target.
UsizeHexDigits == 16

RECURSIVE StripZeros(_)
StripZeros(d) == IF d # << >> /\ Head(d) = 0 THEN StripZeros(Tail(d)) ELSE d

\* usize::from_str_radix(s, 16): an optional '+', then one or more hexadecimal
\* digits; an error on an empty string, on any other character and on a value
\* above usize::MAX.
from_str_radix16(s) ==
  Bind(IF s # << >> /\ Head(s) = "+" THEN Tail(s) ELSE s, LAMBDA body :
    IF body = << >> \/ \E k \in 1..Len(body) : body[k] \notin HexChars THEN Err
    ELSE
      Bind(StripZeros([k \in 1..Len(body) |-> HexVal(body[k])]), LAMBDA d :
        IF Len(d) > UsizeHexDigits THEN Err ELSE Ok(0, d)))

RECURSIVE UsizeInc(_)
\* d + 1 on the digits, the carry running from the last digit; the result of
\* usize::MAX + 1 has UsizeHexDigits + 1 digits.
UsizeInc(d) ==
  IF d = << >> THEN << 1 >>
  ELSE IF d[Len(d)] < 15 THEN [d EXCEPT ![Len(d)] = @ + 1]
  ELSE Append(UsizeInc(SubSeq(d, 1, Len(d) - 1)), 0)

NoneVer == [kind |-> "none"]
SomeVer(d) == [kind |-> "some", ver |-> d]
PanicVer == [kind |-> "panic"]

\* Attr::as_ver: None when the name differs or the value is no numeral, else
\* Some(value + 1). The addition overflows at usize::MAX: a build with
\* overflow checks panics there, a build without them wraps to 0.
as_ver(attr, a, checks) ==
  IF attr.name # a THEN NoneVer
  ELSE
    Bind(from_str_radix16(attr.value), LAMBDA r :
      IF ~r.ok THEN NoneVer
      ELSE
        Bind(UsizeInc(r.val), LAMBDA n :
          IF Len(n) <= UsizeHexDigits THEN SomeVer(n)
          ELSE IF checks THEN PanicVer ELSE SomeVer(<< >>)))

RECURSIVE UsizeDec(_)
\* d - 1 on the digits of a usize above zero, the borrow running from the
\* last digit (the leading digit may become zero).
UsizeDec(d) ==
  IF d[Len(d)] > 0 THEN [d EXCEPT ![Len(d)] = @ - 1]
  ELSE Append(UsizeDec(SubSeq(d, 1, Len(d) - 1)), 15)

\* format!("{ver:x}"): lowercase hexadecimal digits without leading zeros, a
\* single 0 for zero.
LowerHex(d) ==
  Bind(StripZeros(d), LAMBDA n :
    IF n = << >> THEN << "0" >> ELSE [k \in 1..Len(n) |-> HexDigit(n[k])])

NoneAttr == [kind |-> "none"]
SomeAttr(a) == [kind |-> "some", attr |-> a]

\* An encoder that writes the version itself and not the version less one,
\* unlike Attr::from_ver.
from_ver_NoDecrement(ver, a) ==
  IF ver = << >> THEN NoneAttr ELSE SomeAttr(Attr(a, LowerHex(ver)))

\* Attr::from_ver: None for version 0, else the attribute named a whose
\* value is ver - 1 in hexadecimal.
from_ver(ver, a) ==
  IF ver = << >> THEN NoneAttr ELSE SomeAttr(Attr(a, LowerHex(UsizeDec(ver))))

\* Attr::from_wasm_abi
from_wasm_abi(ver) == from_ver(ver, << "w", "a", "s", "m", "A", "b", "i", "V", "e", "r" >>)

RECURSIVE find_map_ver(_, _, _)
\* self.ann.iter().find_map(|a| a.as_ver(ab)): the first decoded version.
find_map_ver(ann, ab, checks) ==
  IF ann = << >> THEN NoneVer
  ELSE
    Bind(as_ver(Head(ann), ab, checks), LAMBDA r :
      IF r.kind = "none" THEN find_map_ver(Tail(ann), ab, checks) ELSE r)

\* ------------------------------------------------------------------------
\* Resource ids: hexadecimal and base64 text
\* ------------------------------------------------------------------------

\* The length of a resource id, [u8; 32].
IdBytes == 32

\* hex::encode: two lowercase digits per byte.
HexEncode(b) == Concat([k \in 1..Len(b) |-> << HexDigit(b[k] \div 16), HexDigit(b[k] % 16) >>])

\* hex::decode_to_slice on an even number of hexadecimal digits.
HexDecode(d) == [k \in 1..(Len(d) \div 2) |-> 16 * HexVal(d[2 * k - 1]) + HexVal(d[2 * k])]

\* The standard base64 alphabet.
B64Alphabet ==
  << "A", "B", "C", "D", "E", "F", "G", "H", "I", "J", "K", "L", "M", "N", "O", "P",
     "Q", "R", "S", "T", "U", "V", "W", "X", "Y", "Z", "a", "b", "c", "d", "e", "f",
     "g", "h", "i", "j", "k", "l", "m", "n", "o", "p", "q", "r", "s", "t", "u", "v",
     "w", "x", "y", "z", "0", "1", "2", "3", "4", "5", "6", "7", "8", "9", "+", "/" >>

B64Chars == {B64Alphabet[k] : k \in 1..64}
B64ValOf == [c \in B64Chars |-> (CHOOSE k \in 1..64 : B64Alphabet[k] = c) - 1]

RECURSIVE B64Encode(_)
\* STANDARD_NO_PAD.encode: four symbols per three bytes, no padding.
B64Encode(b) ==
  IF b = << >> THEN << >>
  ELSE IF Len(b) = 1 THEN
    << B64Alphabet[(b[1] \div 4) + 1], B64Alphabet[((b[1] % 4) * 16) + 1] >>
  ELSE IF Len(b) = 2 THEN
    << B64Alphabet[(b[1] \div 4) + 1],
       B64Alphabet[((b[1] % 4) * 16 + (b[2] \div 16)) + 1],
       B64Alphabet[((b[2] % 16) * 4) + 1] >>
  ELSE
    << B64Alphabet[(b[1] \div 4) + 1],
       B64Alphabet[((b[1] % 4) * 16 + (b[2] \div 16)) + 1],
       B64Alphabet[((b[2] % 16) * 4 + (b[3] \div 64)) + 1],
       B64Alphabet[(b[3] % 64) + 1] >> \o B64Encode(SubSeq(b, 4, Len(b)))

RECURSIVE B64Bytes(_)
\* The bytes of a sequence of symbol values whose length is not 1 modulo 4
\* and whose unused trailing bits are zero.
B64Bytes(v) ==
  IF v = << >> THEN << >>
  ELSE IF Len(v) = 2 THEN << v[1] * 4 + (v[2] \div 16) >>
  ELSE IF Len(v) = 3 THEN << v[1] * 4 + (v[2] \div 16), (v[2] % 16) * 16 + (v[3] \div 4) >>
  ELSE << v[1] * 4 + (v[2] \div 16), (v[2] % 16) * 16 + (v[3] \div 4), (v[3] % 4) * 64 + v[4] >>
       \o B64Bytes(SubSeq(v, 5, Len(v)))

\* A decoder that refuses a buffer smaller than three bytes for every four
\* symbols begun, unlike decode_slice, which counts the bytes it decodes.
B64DecodeSlice_Estimate(be, cap) ==
  IF \E k \in 1..Len(be) : be[k] \notin B64Chars THEN Err
  ELSE IF Len(be) % 4 = 1 THEN Err
  ELSE IF ((Len(be) + 3) \div 4) * 3 > cap THEN Err
  ELSE Ok(0, B64Bytes([k \in 1..Len(be) |-> B64ValOf[be[k]]]))

\* STANDARD_NO_PAD.decode_slice(be, &mut [0u8; cap]): an error on a symbol
\* outside the alphabet (padding included), on a length of 1 modulo 4, on
\* non-zero trailing bits and on more than cap decoded bytes; else the bytes.
B64DecodeSlice(be, cap) ==
  IF \E k \in 1..Len(be) : be[k] \notin B64Chars THEN Err
  ELSE IF Len(be) % 4 = 1 THEN Err
  ELSE
    Bind([k \in 1..Len(be) |-> B64ValOf[be[k]]], LAMBDA v :
      IF Len(be) % 4 = 2 /\ v[Len(v)] % 16 # 0 THEN Err
      ELSE IF Len(be) % 4 = 3 /\ v[Len(v)] % 4 # 0 THEN Err
      ELSE IF (Len(be) * 3) \div 4 > cap THEN Err
      ELSE Ok(0, B64Bytes(v)))

\* ------------------------------------------------------------------------
\* Type grammar: values
\* ------------------------------------------------------------------------

ResTyNone == [tag |-> "None"]
ResTyOf(id) == [tag |-> "Of", id |-> id]
ResTyThis == [tag |-> "This"]

\* The primitive arguments are Prim("I32"), Prim("I64"), Prim("F32"), Prim("F64").
Prim(k) == [tag |-> k]
PrimTags == {"I32", "I64", "F32", "F64"}

\* The token of a primitive argument.
PrimText(k) ==
  CASE k = "I32" -> << "I", "3", "2" >>
    [] k = "I64" -> << "I", "6", "4" >>
    [] k = "F32" -> << "F", "3", "2" >>
    [] k = "F64" -> << "F", "6", "4" >>
Resource(ty, nullable, take, ann) ==
  [tag |-> "Resource", ty |-> ty, nullable |-> nullable, take |-> take, ann |-> ann]

Sig(ann, params, rets) == [ann |-> ann, params |-> params, rets |-> rets]

\* A BTreeMap is a function from its keys.
EmptyMap == [k \in {} |-> {}]
MapInsert(m, key, v) == [k \in DOMAIN m \cup {key} |-> IF k = key THEN v ELSE m[k]]

\* map.get(key).cloned().unwrap_or(d): the entry at the key, or d when the
\* key is absent.
GetOr(m, key, d) == IF key \in DOMAIN m THEN m[key] ELSE d

Interface(methods, ann) == [methods |-> methods, ann |-> ann]

\* ------------------------------------------------------------------------
\* Type grammar: parsers
\* ------------------------------------------------------------------------

RECURSIVE FindChar(_, _, _)
\* The index of the first c at or after i, 0 when there is none.
FindChar(t, i, c) == IF i > Len(t) THEN 0 ELSE IF t[i] = c THEN i ELSE FindChar(t, i + 1, c)

\* The base64 branch of parse_resty: ~b64<text>~ decoding to exactly 32 bytes.
parse_resty_b64(t, i) ==
  IF ~StartsWith(t, i, << "~", "b", "6", "4" >>) THEN Err
  ELSE
    Bind(FindChar(t, i + 4, "~"), LAMBDA j :
      IF j = 0 THEN Err
      ELSE
        Bind(B64DecodeSlice(SubSeq(t, i + 4, j - 1), IdBytes), LAMBDA d :
          IF d.ok /\ Len(d.val) = IdBytes THEN Ok(j + 1, ResTyOf(d.val)) ELSE Err))

\* parse_resty: "this", the base64 form, exactly 64 hexadecimal digits, or
\* nothing at all (ResTy::None, nothing consumed).
parse_resty(t, i) ==
  IF StartsWith(t, i, << "t", "h", "i", "s" >>) THEN Ok(i + 4, ResTyThis)
  ELSE
    Bind(parse_resty_b64(t, i), LAMBDA b :
      IF b.ok THEN b
      ELSE IF RunEnd(t, i, HexChars) - i >= 2 * IdBytes
           THEN Ok(i + 2 * IdBytes, ResTyOf(HexDecode(SubSeq(t, i, i + 2 * IdBytes - 1))))
           ELSE Ok(i, ResTyNone))

\* A reader that takes a primitive token only when no annotation precedes
\* it, unlike parse_arg.
parse_arg_BarePrimOnly(t, i) ==
  Bind(parse_attrs(t, i), LAMBDA r :
    IF ~r.ok THEN Err
    ELSE
      Bind(multispace0(t, r.pos), LAMBDA a :
        IF StartsWith(t, a, << "R" >>) THEN
          Bind(parse_resty(t, a + 1), LAMBDA d :
          Bind(StartsWith(t, d.pos, << "n" >>), LAMBDA k :
          Bind(IF k THEN d.pos + 1 ELSE d.pos, LAMBDA p :
          Bind(StartsWith(t, p, << "&" >>), LAMBDA amp :
            Ok(IF amp THEN p + 1 ELSE p, Resource(d.val, k, ~amp, r.val))))))
        ELSE IF a + 2 > Len(t) \/ r.val # << >> THEN Err
        ELSE
          Bind(SubSeq(t, a, a + 2), LAMBDA c :
            IF \E k \in PrimTags : PrimText(k) = c
            THEN Ok(a + 3, Prim(CHOOSE k \in PrimTags : PrimText(k) = c))
            ELSE Err)))

\* parse_arg: annotations, then R and a resource type with its flags, or one
\* of the four primitive tokens.
parse_arg(t, i) ==
  Bind(parse_attrs(t, i), LAMBDA r :
    IF ~r.ok THEN Err
    ELSE
      Bind(multispace0(t, r.pos), LAMBDA a :
        IF StartsWith(t, a, << "R" >>) THEN
          Bind(parse_resty(t, a + 1), LAMBDA d :
          Bind(StartsWith(t, d.pos, << "n" >>), LAMBDA k :
          Bind(IF k THEN d.pos + 1 ELSE d.pos, LAMBDA p :
          Bind(StartsWith(t, p, << "&" >>), LAMBDA amp :
            Ok(IF amp THEN p + 1 ELSE p, Resource(d.val, k, ~amp, r.val))))))
        ELSE IF a + 2 > Len(t) THEN Err
        ELSE
          Bind(SubSeq(t, a, a + 2), LAMBDA c :
            IF \E k \in PrimTags : PrimText(k) = c
            THEN Ok(a + 3, Prim(CHOOSE k \in PrimTags : PrimText(k) = c))
            ELSE Err)))

RECURSIVE SepArgsLoop(_, _, _)
\* The loop of separated_list0(char(','), parse_arg) after the first element:
\* a separator that no element follows is left unconsumed.
SepArgsLoop(t, i, acc) ==
  IF ~StartsWith(t, i, << "," >>) THEN Ok(i, acc)
  ELSE
    Bind(parse_arg(t, i + 1), LAMBDA r :
      IF ~r.ok THEN Ok(i, acc) ELSE SepArgsLoop(t, r.pos, Append(acc, r.val)))

\* delimited(char('('), separated_list0(char(','), parse_arg), char(')'))
ParenArgs(t, i) ==
  IF ~StartsWith(t, i, << "(" >>) THEN Err
  ELSE
    Bind(parse_arg(t, i + 1), LAMBDA f :
    Bind(IF f.ok THEN SepArgsLoop(t, f.pos, << f.val >>) ELSE Ok(i + 1, << >>), LAMBDA l :
      IF StartsWith(t, l.pos, << ")" >>) THEN Ok(l.pos + 1, l.val) ELSE Err))

\* parse_sig: annotations, (params) -> (rets)
parse_sig(t, i) ==
  Bind(parse_attrs(t, i), LAMBDA b :
    IF ~b.ok THEN Err
    ELSE
      Bind(ParenArgs(t, multispace0(t, b.pos)), LAMBDA ps :
        IF ~ps.ok THEN Err
        ELSE
          Bind(multispace0(t, ps.pos), LAMBDA a :
            IF ~StartsWith(t, a, << "-", ">" >>) THEN Err
            ELSE
              Bind(ParenArgs(t, multispace0(t, a + 2)), LAMBDA rs :
                IF ~rs.ok THEN Err ELSE Ok(rs.pos, Sig(b.val, ps.val, rs.val))))))

\* One element of the method list: (multispace0, ident, parse_sig).
MethodDecl(t, i) ==
  Bind(ident(t, multispace0(t, i)), LAMBDA n :
    IF ~n.ok THEN Err
    ELSE
      Bind(parse_sig(t, n.pos), LAMBDA g :
        IF ~g.ok THEN Err ELSE Ok(g.pos, << n.val, g.val >>)))

RECURSIVE SepDeclsLoop(_, _, _)
SepDeclsLoop(t, i, acc) ==
  IF ~StartsWith(t, i, << ";" >>) THEN Ok(i, acc)
  ELSE
    Bind(MethodDecl(t, i + 1), LAMBDA r :
      IF ~r.ok THEN Ok(i, acc) ELSE SepDeclsLoop(t, r.pos, Append(acc, r.val)))

\* separated_list0(char(';'), (multispace0, ident, parse_sig)): the declared
\* (name, signature) pairs in the order of the text.
SepDecls(t, i) ==
  Bind(MethodDecl(t, i), LAMBDA f :
    IF f.ok THEN SepDeclsLoop(t, f.pos, << f.val >>) ELSE Ok(i, << >>))

RECURSIVE CollectMethods_FirstWins(_)
\* A collection in which an earlier pair is kept and a later one of the same
\* name dropped, unlike the collect of parse_interface.
CollectMethods_FirstWins(s) ==
  IF s = << >> THEN EmptyMap
  ELSE MapInsert(CollectMethods_FirstWins(Tail(s)), Head(s)[1], Head(s)[2])

RECURSIVE CollectMethods(_)
\* s.into_iter().map(..).collect::<BTreeMap<_, _>>(): the pairs inserted in
\* order, a later pair replacing an earlier one of the same name.
CollectMethods(s) ==
  IF s = << >> THEN EmptyMap
  ELSE MapInsert(CollectMethods(SubSeq(s, 1, Len(s) - 1)), s[Len(s)][1], s[Len(s)][2])

\* parse_interface: annotations, then { method declarations separated by ; }
parse_interface(t, i) ==
  Bind(parse_attrs(t, multispace0(t, i)), LAMBDA b :
    IF ~b.ok THEN Err
    ELSE IF ~StartsWith(t, b.pos, << "{" >>) THEN Err
    ELSE
      Bind(SepDecls(t, b.pos + 1), LAMBDA s :
      Bind(multispace0(t, s.pos), LAMBDA e :
        IF StartsWith(t, e, << "}" >>)
        THEN Ok(e + 1, Interface(CollectMethods(s.val), b.val))
        ELSE Err)))

\* ------------------------------------------------------------------------
\* Type grammar: canonical rendering and content address
\* ------------------------------------------------------------------------

\* ResTy::render: g is the answer of gattrs("ridFmtVer").
ResTy_render(ty, g) ==
  IF ty.tag = "None" THEN << >>
  ELSE IF ty.tag = "This" THEN << "t", "h", "i", "s" >>
  ELSE IF g.kind = "some" /\ g.ver # << >>
       THEN << "~", "b", "6", "4" >> \o B64Encode(ty.id) \o << "~" >>
       ELSE HexEncode(ty.id)

\* A renderer that writes the borrow flag before the nullable flag, unlike
\* Arg::render.
Arg_render_FlagsSwapped(a, g) ==
  IF a.tag # "Resource" THEN PrimText(a.tag)
  ELSE AttrsText(a.ann) \o << "R" >> \o ResTy_render(a.ty, g)
       \o (IF a.take THEN << >> ELSE << "&" >>)
       \o (IF a.nullable THEN << "n" >> ELSE << >>)

\* A renderer that leaves the nullable flag out, unlike Arg::render.
Arg_render_NoNullable(a, g) ==
  IF a.tag # "Resource" THEN PrimText(a.tag)
  ELSE AttrsText(a.ann) \o << "R" >> \o ResTy_render(a.ty, g)
       \o (IF a.take THEN << >> ELSE << "&" >>)

\* Arg::render
Arg_render(a, g) ==
  IF a.tag # "Resource" THEN PrimText(a.tag)
  ELSE AttrsText(a.ann) \o << "R" >> \o ResTy_render(a.ty, g)
       \o (IF a.nullable THEN << "n" >> ELSE << >>)
       \o (IF a.take THEN << >> ELSE << "&" >>)

\* A renderer that writes the results before the parameters, unlike
\* Sig::render.
Sig_render_RetsFirst(s, g) ==
  AttrsText(s.ann) \o << "(" >>
  \o Join([k \in 1..Len(s.rets) |-> Arg_render(s.rets[k], g)], << "," >>)
  \o << ")", " ", "-", ">", " ", "(" >>
  \o Join([k \in 1..Len(s.params) |-> Arg_render(s.params[k], g)], << "," >>)
  \o << ")" >>

\* Sig::render
Sig_render(s, g) ==
  AttrsText(s.ann) \o << "(" >>
  \o Join([k \in 1..Len(s.params) |-> Arg_render(s.params[k], g)], << "," >>)
  \o << ")", " ", "-", ">", " ", "(" >>
  \o Join([k \in 1..Len(s.rets) |-> Arg_render(s.rets[k], g)], << "," >>)
  \o << ")" >>

RECURSIVE SortedNames(_)
\* The keys of a map of strings in ascending order (x.sort_by_key(|a| a.0)).
SortedNames(S) ==
  IF S = {} THEN << >>
  ELSE
    Bind(CHOOSE n \in S : \A o \in S : ~StrLess(o, n), LAMBDA m :
      << m >> \o SortedNames(S \ {m}))

\* The keys in descending order, unlike the order of Interface::render.
RenderOrder_Descending(methods) ==
  Bind(SortedNames(DOMAIN methods), LAMBDA up :
    [k \in 1..Len(up) |-> up[Len(up) + 1 - k]])

\* The order in which Interface::render writes the methods.
RenderOrder(methods) == SortedNames(DOMAIN methods)

\* The text of an interface whose methods are written in the order names:
\* annotations, then { name signature ; ... }.
InterfaceText(v, names, g) ==
  AttrsText(v.ann) \o << "{" >>
  \o Join([k \in 1..Len(names) |-> names[k] \o Sig_render(v.methods[names[k]], g)], << ";" >>)
  \o << "}" >>

\* Interface::render
Interface_render(v, g) == InterfaceText(v, RenderOrder(v.methods), g)

\* Whether some argument of the interface holds ResTy::Of: only then does
\* rendering call gattrs.
HasOf(v) ==
  \E n \in DOMAIN v.methods :
    Bind(v.methods[n], LAMBDA s :
      \/ \E k \in 1..Len(s.params) : s.params[k].tag = "Resource" /\ s.params[k].ty.tag = "Of"
      \/ \E k \in 1..Len(s.rets) : s.rets[k].tag = "Resource" /\ s.rets[k].ty.tag = "Of")

\* The capability lookup Display hands to render for the interface v.
gattrs(v, ab, checks) == find_map_ver(v.ann, ab, checks)

RenderPanic == [panic |-> TRUE]
Rendered(t) == [panic |-> FALSE, text |-> t]

\* impl Display for Interface: the canonical text, or a panic when the
\* lookup overflows in a build with overflow checks.
Interface_fmt(v, checks) ==
  Bind(gattrs(v, << "r", "i", "d", "F", "m", "t", "V", "e", "r" >>, checks), LAMBDA g :
    IF HasOf(v) /\ g.kind = "panic" THEN RenderPanic ELSE Rendered(Interface_render(v, g)))

\* SHA3-256 of a text. The digest stands for the text it was computed from:
\* two digests are equal exactly when the texts are (the hash taken as
\* injective).
Sha3_256(t) == << "sha3-256", t >>

\* Interface::rid
rid(v, checks) ==
  Bind(Interface_fmt(v, checks), LAMBDA d :
    IF d.panic THEN RenderPanic ELSE [panic |-> FALSE, digest |-> Sha3_256(d.text)])

\* ------------------------------------------------------------------------
\* Interfaces: construction, rendering and parsing as a state machine
\* ------------------------------------------------------------------------

\* The largest number of components (annotations, methods, arguments) of an
\* interface under construction.
MaxSize == 3

RidFmtVer == << "r", "i", "d", "F", "m", "t", "V", "e", "r" >>

\* The numeral of usize::MAX.
MaxHex == [k \in 1..UsizeHexDigits |-> "f"]

\* Annotations a caller may put on an interface; Attr has public fields, so
\* a name may hold '=' or start with a blank.
IfaceAttrPool ==
  { Attr(<< "a" >>, << "1" >>), Attr(<< " ", "b" >>, << "1" >>),
    Attr(RidFmtVer, << "0" >>), Attr(RidFmtVer, << "z", "z" >>), Attr(RidFmtVer, MaxHex),
    Attr(<< "a", "=", "b" >>, << "c" >>), Attr(<< "a" >>, << "b", "=", "c" >>) }

\* Annotations put on signatures and resource arguments.
InnerAttrPool == { Attr(<< "b" >>, << "x", "[", "y", "]" >>), Attr(<< "a" >>, << "1" >>) }

IdA == [k \in 1..IdBytes |-> << 222, 173, 190, 239 >>[((k - 1) % 4) + 1]]
IdB == [k \in 1..IdBytes |-> 8 * k - 1]
IdPool == {IdA, IdB}

ArgPool ==
  { Prim("I32"), Prim("I64"), Prim("F32"), Prim("F64"),
    Resource(ResTyNone, FALSE, TRUE, << >>), Resource(ResTyNone, TRUE, TRUE, << >>),
    Resource(ResTyThis, FALSE, FALSE, << >>),
    Resource(ResTyOf(IdA), FALSE, TRUE, << >>), Resource(ResTyOf(IdB), TRUE, FALSE, << >>) }

MethodNames == { << "f", "o", "o" >>, << "b", "a", "r" >> }

NoText == [panic |-> FALSE, text |-> << >>]
NoRes == [ok |-> FALSE]

RECURSIVE SumSeq(_)
SumSeq(q) == IF q = << >> THEN 0 ELSE Head(q) + SumSeq(Tail(q))

ArgSize(a) == IF a.tag = "Resource" THEN 1 + Len(a.ann) ELSE 1
SigSize(g) ==
  1 + Len(g.ann) + SumSeq([k \in 1..Len(g.params) |-> ArgSize(g.params[k])])
    + SumSeq([k \in 1..Len(g.rets) |-> ArgSize(g.rets[k])])
Size(v) ==
  Bind(SortedNames(DOMAIN v.methods), LAMBDA names :
    Len(v.ann) + SumSeq([k \in 1..Len(names) |-> SigSize(v.methods[names[k]])]))

\* The places of the arguments of v: << method, "params" or "rets", index >>.
ArgSites(v) ==
  UNION { { << n, side, k >> : k \in 1..Len(v.methods[n][side]) } :
          n \in DOMAIN v.methods, side \in {"params", "rets"} }
ArgAt(v, site) == v.methods[site[1]][site[2]][site[3]]
ResourceSites(v) == { site \in ArgSites(v) : ArgAt(v, site).tag = "Resource" }

IfaceInit ==
  /\ iface = Interface(EmptyMap, << >>)
  /\ phase = "build"
  /\ text = NoText
  /\ res = NoRes

Building == phase = "build"
Grow == Building /\ Size(iface) < MaxSize
Built(v) == iface' = v /\ UNCHANGED << phase, text, res, mangleVars, mergeVars >>

\* interface.ann.push(a)
AddIfaceAnn ==
  /\ Grow
  /\ \E a \in IfaceAttrPool : Built([iface EXCEPT !.ann = Append(@, a)])

\* interface.methods.insert(n, Sig { .. })
AddMethod ==
  /\ Grow
  /\ \E n \in MethodNames \ DOMAIN iface.methods :
       Built([iface EXCEPT !.methods = MapInsert(@, n, Sig(<< >>, << >>, << >>))])

\* sig.ann.push(a)
AddSigAnn ==
  /\ Grow
  /\ \E n \in DOMAIN iface.methods, a \in InnerAttrPool :
       Built([iface EXCEPT !.methods[n].ann = Append(@, a)])

\* sig.params.push(arg) / sig.rets.push(arg)
AddArg ==
  /\ Grow
  /\ \E n \in DOMAIN iface.methods, side \in {"params", "rets"}, a \in ArgPool :
       Built([iface EXCEPT !.methods[n][side] = Append(@, a)])

\* ann.push(a) on a resource argument
AddArgAnn ==
  /\ Grow
  /\ \E site \in ResourceSites(iface), a \in InnerAttrPool :
       Built([iface EXCEPT !.methods[site[1]][site[2]][site[3]].ann = Append(@, a)])

\* sig.params[k] = arg / sig.rets[k] = arg: an argument is replaced by one of
\* another type or with other flags.
SetArg ==
  /\ Building
  /\ \E site \in ArgSites(iface), a \in ArgPool :
       Built([iface EXCEPT !.methods[site[1]][site[2]][site[3]] = a])

\* A method is given another name.
RenameMethod ==
  /\ Building
  /\ \E n \in DOMAIN iface.methods, m \in MethodNames \ DOMAIN iface.methods :
       Built([iface EXCEPT !.methods =
                [k \in (DOMAIN @ \ {n}) \cup {m} |-> IF k = m THEN @[n] ELSE @[k]]])

\* Two neighbouring parameters of a method change places.
SwapParams ==
  /\ Building
  /\ \E n \in DOMAIN iface.methods :
       \E k \in 1..(Len(iface.methods[n].params) - 1) :
         LET p == iface.methods[n].params
         IN Built([iface EXCEPT !.methods[n].params =
                     [p EXCEPT ![k] = p[k + 1], ![k + 1] = p[k]]])

\* One annotation of the interface is replaced by another.
ReplaceIfaceAnn ==
  /\ Building
  /\ \E k \in 1..Len(iface.ann), a \in IfaceAttrPool :
       Built([iface EXCEPT !.ann[k] = a])

\* format!("{iface}"): the canonical text, in a build with (checks) or without
\* overflow checks.
Render ==
  /\ Building
  /\ \E checks \in BOOLEAN :
       /\ text' = Interface_fmt(iface, checks)
       /\ phase' = "rendered"
       /\ UNCHANGED << iface, res, mangleVars, mergeVars >>

RECURSIVE Perms(_)
\* The orders in which the names of S can be written.
Perms(S) ==
  IF S = {} THEN { << >> }
  ELSE UNION { { << n >> \o q : q \in Perms(S \ {n}) } : n \in S }

\* A text of the interface as a person may write it: the methods declared in
\* any order, the ids in either form (g as in ResTy::render).
Write ==
  /\ Building
  /\ \E order \in Perms(DOMAIN iface.methods), g \in {NoneVer, SomeVer(<< 1 >>)} :
       /\ text' = Rendered(InterfaceText(iface, order, g))
       /\ \A checks \in BOOLEAN : text' # Interface_fmt(iface, checks)
       /\ phase' = "written"
       /\ UNCHANGED << iface, res, mangleVars, mergeVars >>

\* parse_interface on the text
Parse ==
  /\ phase \in {"rendered", "written"}
  /\ ~text.panic
  /\ res' = parse_interface(text.text, 1)
  /\ phase' = "parsed"
  /\ UNCHANGED << iface, text, mangleVars, mergeVars >>

\* The text of an id in one of its two forms.
IdText(id, form) ==
  IF form = "hex" THEN HexEncode(id) ELSE << "~", "b", "6", "4" >> \o B64Encode(id) \o << "~" >>

\* What may follow a resource type in an argument.
IdSuffixes == { << >>, << "n" >>, << "&" >>, << "n", "&", ")" >>, << ",", "I", "3", "2" >>, << "0" >> }

\* parse_resty on an id in either form, followed by more text
ParseResTy ==
  /\ Building
  /\ iface = Interface(EmptyMap, << >>)
  /\ \E id \in IdPool, form \in {"hex", "b64"}, suffix \in IdSuffixes :
       /\ text' = Rendered(IdText(id, form) \o suffix)
       /\ res' = parse_resty(text'.text, 1)
  /\ phase' = "resty"
  /\ UNCHANGED << iface, mangleVars, mergeVars >>


\* ------------------------------------------------------------------------
\* Properties of rendering and parsing
\* ------------------------------------------------------------------------

\* The value brackets in balance: parse_balanced reads all of it.
Balanced(value) == BalancedEnd(Append(value, "]"), 1, 0) = Len(value) + 1

\* An attribute that parse_attr reads back as it is: no '=' in the name, no
\* blank at the start of the name or of the value, the value balanced.
ValidAttr(a) ==
  /\ \A k \in 1..Len(a.name) : a.name[k] # "="
  /\ a.name = << >> \/ a.name[1] \notin SpaceChars
  /\ a.value = << >> \/ a.value[1] \notin SpaceChars
  /\ Balanced(a.value)

\* Every annotation list of v: of the interface, of its signatures and of
\* its resource arguments.
AnnLists(v) ==
  {v.ann} \cup { v.methods[n].ann : n \in DOMAIN v.methods }
  \cup { ArgAt(v, site).ann : site \in ResourceSites(v) }

ValidComponents(v) ==
  /\ \A l \in AnnLists(v) : \A k \in 1..Len(l) : ValidAttr(l[k])
  /\ \A n \in DOMAIN v.methods : ident(n, 1) = Ok(Len(n) + 1, n)

\* The list is in ascending order of name (equal names may follow each other).
SortedAnn(l) == \A k \in 1..(Len(l) - 1) : ~StrLess(l[k + 1].name, l[k].name)
AllSorted(v) == \A l \in AnnLists(v) : SortedAnn(l)

\* The attributes of the list l that are named n, in the order of l.
Named(l, n) == SelectSeq(l, LAMBDA x : x.name = n)

SelectsB64(g) == g.kind = "some" /\ g.ver # << >>

\* The text is the canonical rendering of iface, made in the hex form chosen
\* by the annotations of iface.
CanonicalHex ==
  \E checks \in BOOLEAN :
    /\ text = Interface_fmt(iface, checks)
    /\ ~text.panic
    /\ ~SelectsB64(gattrs(iface, RidFmtVer, checks))

\* The text is the canonical rendering of iface, made in the base64 form
\* chosen by the annotations of iface.
CanonicalB64 ==
  \E checks \in BOOLEAN :
    /\ text = Interface_fmt(iface, checks)
    /\ ~text.panic
    /\ SelectsB64(gattrs(iface, RidFmtVer, checks))

\* The parser read the whole text and returned iface.
ReadBack == res.ok /\ res.pos = Len(text.text) + 1 /\ res.val = iface

\* C1 as stated: an interface of valid components with any annotation lists,
\* rendered in the hex form, is read back whole and equal by parse_interface.
C1_AnyAnnotationLists ==
  (phase = "parsed" /\ CanonicalHex /\ ValidComponents(iface)) => ReadBack

\* C1, with the order of annotations taken into account: an interface of
\* valid components whose annotation lists are all in ascending order of
\* name, rendered in the hex form, is read back whole and equal by
\* parse_interface.
C1_HexRoundTrip ==
  (phase = "parsed" /\ CanonicalHex /\ ValidComponents(iface) /\ AllSorted(iface)) => ReadBack

\* An interface with an annotated resource argument holding an id has gone
\* through the hex rendering and the parser and come back equal.
C1_Witness ==
  /\ phase = "parsed" /\ CanonicalHex /\ ValidComponents(iface) /\ AllSorted(iface)
  /\ ReadBack
  /\ \E site \in ResourceSites(iface) :
       ArgAt(iface, site).ty.tag = "Of" /\ ArgAt(iface, site).ann # << >>

\* What parse_resty must answer on the text of id in the given form followed
\* by anything: the id, with the id text consumed.
BothFormsRead ==
  \A id \in IdPool, form \in {"hex", "b64"}, suffix \in IdSuffixes :
    text.text = IdText(id, form) \o suffix =>
      res = Ok(Len(IdText(id, form)) + 1, ResTyOf(id))

\* C2 as stated: parse_resty reads both forms of every id, and any interface
\* whose annotations declare ridFmtVer >= 1 is read back equal from its
\* rendering.
C2_AnyAnnotationLists ==
  /\ phase = "resty" => BothFormsRead
  /\ (phase = "parsed" /\ CanonicalB64 /\ ValidComponents(iface)) => ReadBack

\* C2, with the order of annotations taken into account: parse_resty reads
\* the 64-digit hex form and the ~b64..~ form of every id, consuming the id
\* text; and an interface of valid components with annotation lists in
\* ascending order of name whose annotations declare ridFmtVer >= 1 is read
\* back whole and equal from its rendering.
C2_BothForms ==
  /\ phase = "resty" => BothFormsRead
  /\ (phase = "parsed" /\ CanonicalB64 /\ ValidComponents(iface) /\ AllSorted(iface)) => ReadBack

\* An interface holding an id was rendered in the base64 form and read back.
C2_Witness ==
  /\ phase = "parsed" /\ CanonicalB64 /\ ValidComponents(iface) /\ AllSorted(iface)
  /\ HasOf(iface) /\ ReadBack
  /\ \E k \in 1..Len(text.text) : text.text[k] = "~"

\* C3 as stated: the ids of a rendered interface are in the base64 form
\* exactly when some annotation is named ridFmtVer and has a valid hex value,
\* and in the hex form otherwise; one form serves all ids.
C3_FormIffValidHex ==
  (phase = "rendered" /\ ~text.panic /\ HasOf(iface)) =>
    LET declared == \E k \in 1..Len(iface.ann) :
                      /\ iface.ann[k].name = RidFmtVer
                      /\ from_str_radix16(iface.ann[k].value).ok
    IN text.text = Interface_render(iface, IF declared THEN SomeVer(<< 1 >>) ELSE NoneVer)

\* The names of the sequence are in strictly ascending order.
Ascending(order) == \A k \in 1..(Len(order) - 1) : StrLess(order[k], order[k + 1])

\* The value declared again, its methods in any order and its ids in either
\* form, is read as a value with the same canonical text and rid.
SameWhateverOrder(v) ==
  \A order \in Perms(DOMAIN v.methods), g \in {NoneVer, SomeVer(<< 1 >>)} :
    Bind(parse_interface(InterfaceText(v, order, g), 1), LAMBDA w :
      /\ w.ok
      /\ \A checks \in BOOLEAN :
           /\ Interface_fmt(w.val, checks) = Interface_fmt(v, checks)
           /\ rid(w.val, checks) = rid(v, checks))

\* C4: the canonical text declares the methods in ascending order of name,
\* and a value whose methods were declared in any order in the parsed text
\* renders to the same text and has the same rid; rid is a function of the
\* value.
C4_MethodOrder ==
  /\ (phase = "rendered" /\ ~text.panic) =>
       \E order \in Perms(DOMAIN iface.methods), g \in {NoneVer, SomeVer(<< 1 >>)} :
         Ascending(order) /\ text.text = InterfaceText(iface, order, g)
  /\ (phase = "parsed" /\ res.ok /\ Cardinality(DOMAIN res.val.methods) >= 2) =>
       SameWhateverOrder(res.val)

\* A text declaring two different methods out of order was parsed.
C4_Witness ==
  /\ phase = "parsed" /\ res.ok
  /\ Cardinality(DOMAIN res.val.methods) = 2
  /\ \A n, m \in DOMAIN res.val.methods : n # m => res.val.methods[n] # res.val.methods[m]
  /\ \E order \in Perms(DOMAIN iface.methods), g \in {NoneVer, SomeVer(<< 1 >>)} :
       ~Ascending(order) /\ text.text = InterfaceText(iface, order, g)

\* The two values have different canonical texts and different rids (the
\* digests of these texts, as Interface::rid takes them) in every build.
DifferentIdentity(v, w) ==
  \A checks \in BOOLEAN :
    Bind(Interface_fmt(v, checks), LAMBDA a :
    Bind(Interface_fmt(w, checks), LAMBDA b :
      (~a.panic /\ ~b.panic) =>
        a.text # b.text /\ Sha3_256(a.text) # Sha3_256(b.text)))

\* C5 as stated: any change of any interface value (a method name, the order
\* of parameters, a parameter added, an annotation) changes the canonical
\* text and the rid.
C5_AnyInterface ==
  [][(Building /\ iface' # iface) => DifferentIdentity(iface, iface')]_ifaceVars

\* The text of the components shows where each ends: no '=' in an attribute
\* name, every attribute value balanced, every method name an identifier.
Delimited(v) ==
  /\ \A l \in AnnLists(v) : \A k \in 1..Len(l) :
       /\ \A j \in 1..Len(l[k].name) : l[k].name[j] # "="
       /\ Balanced(l[k].value)
  /\ \A n \in DOMAIN v.methods : ident(n, 1) = Ok(Len(n) + 1, n)

\* C5, for delimited components: when the attribute names hold no '=', the
\* attribute values are balanced and the method names are identifiers, before
\* and after the change, any change of a method name, of the order of
\* parameters, of an argument or of an annotation changes the canonical text
\* and the rid.
C5_ContentSensitive ==
  [][(Building /\ iface' # iface /\ Delimited(iface) /\ Delimited(iface'))
       => DifferentIdentity(iface, iface')]_ifaceVars

\* The parameters of a method as they are after a swap, rendered: the text
\* differs from that of the value with the parameters in the other order.
C5_Witness ==
  /\ phase = "rendered" /\ ~text.panic /\ Delimited(iface)
  /\ \E n \in DOMAIN iface.methods :
       LET p == iface.methods[n].params
       IN /\ Len(p) = 2 /\ p[1] # p[2]
          /\ DifferentIdentity(iface, [iface EXCEPT !.methods[n].params = << p[2], p[1] >>])

\* ------------------------------------------------------------------------
\* Mangling of Arity and Param (generics.rs)
\* ------------------------------------------------------------------------

RECURSIVE ToDec(_)
\* write!("{}") of a usize: its decimal digits.
ToDec(n) == IF n < 10 THEN << HexDigit(n) >> ELSE ToDec(n \div 10) \o << HexDigit(n % 10) >>

RECURSIVE StripDecZeros(_)
\* The numeral without its leading zeros.
StripDecZeros(s) == IF s # << >> /\ Head(s) = "0" THEN StripDecZeros(Tail(s)) ELSE s

RECURSIVE DecValue(_)
DecValue(s) == IF s = << >> THEN 0 ELSE 10 * DecValue(SubSeq(s, 1, Len(s) - 1)) + HexVal(s[Len(s)])

\* tag(s): the text s at position i; the output is s.
tag(t, i, s) == IF StartsWith(t, i, s) THEN Ok(i + Len(s), s) ELSE Err

\* alphanumeric1.map_opt(|a| a.parse::<usize>().ok()): a run of letters and
\* digits that is a decimal numeral. The numerals of the texts written here
\* are counts of a few entries, far below usize::MAX.
alnum_usize(t, i) ==
  Bind(alphanumeric1(t, i), LAMBDA r :
    IF ~r.ok THEN Err
    ELSE IF \E k \in 1..Len(r.val) : r.val[k] \notin DigitChars THEN Err
    ELSE Ok(r.pos, DecValue(r.val)))

\* take_while_m_n(64, 64, is_digit(16)).map(decode): exactly 64 hexadecimal
\* digits, decoded to 32 bytes.
hex_id(t, i) ==
  IF RunEnd(t, i, HexChars) - i >= 2 * IdBytes
  THEN Ok(i + 2 * IdBytes, HexDecode(SubSeq(t, i, i + 2 * IdBytes - 1)))
  ELSE Err

RECURSIVE Param_demangle(_, _)

\* The parser named q applied to the text u from its start.
ApplyParser(q, u) ==
  CASE q = "alphanumeric1" -> alphanumeric1(u, 1)
    [] q = "usize" -> alnum_usize(u, 1)
    [] q = "hex_id" -> hex_id(u, 1)
    [] q = "Param::demangle" -> Param_demangle(u, 1)

\* p.and_then(q) where p is tag(s): Parser::and_then applies q to the OUTPUT
\* of p, that is to the text s itself, and not to the input that follows; what
\* q leaves over is dropped.
tag_and_then(t, i, s, q) ==
  Bind(tag(t, i, s), LAMBDA r :
    IF ~r.ok THEN Err
    ELSE
      Bind(ApplyParser(q, r.val), LAMBDA o :
        IF o.ok THEN Ok(r.pos, o.val) ELSE Err))

\* One element of many1 in Arity::demangle:
\* (tag("P").and_then(alphanumeric1), tag(";").and_then(usize)).
ArityItem(t, i) ==
  Bind(tag_and_then(t, i, << "P" >>, "alphanumeric1"), LAMBDA a :
    IF ~a.ok THEN Err
    ELSE
      Bind(tag_and_then(t, a.pos, << ";" >>, "usize"), LAMBDA b :
        IF ~b.ok THEN Err ELSE Ok(b.pos, << a.val, b.val >>)))

RECURSIVE Many0ArityItem(_, _, _)
Many0ArityItem(t, i, acc) ==
  Bind(ArityItem(t, i), LAMBDA r :
    IF ~r.ok THEN Ok(i, acc)
    ELSE IF r.pos = i THEN Err
    ELSE Many0ArityItem(t, r.pos, Append(acc, r.val)))

\* many1(..): one element at least.
Many1ArityItem(t, i) ==
  Bind(ArityItem(t, i), LAMBDA r :
    IF ~r.ok THEN Err ELSE Many0ArityItem(t, r.pos, << r.val >>))

RECURSIVE PopInto(_, _, _)
\* (0..j).filter_map(|_| stack.pop()).collect(): up to j items taken from the
\* top of the stack (its end) into a map, a later item replacing an earlier
\* one of the same label. The answer is << map, rest of the stack >>.
PopInto(stack, j, m) ==
  IF j = 0 \/ stack = << >> THEN << m, stack >>
  ELSE
    Bind(stack[Len(stack)], LAMBDA top :
      PopInto(SubSeq(stack, 1, Len(stack) - 1), j - 1, MapInsert(m, top[1], top[2])))

RECURSIVE ArityReduce(_, _)
\* for (i, j) in m.into_iter().rev(): the stack after the pairs of m have
\* been reduced from the last to the first.
ArityReduce(m, stack) ==
  IF m = << >> THEN stack
  ELSE
    Bind(m[Len(m)], LAMBDA last :
    Bind(PopInto(stack, last[2], EmptyMap), LAMBDA r :
      ArityReduce(SubSeq(m, 1, Len(m) - 1), Append(r[2], << last[1], r[1] >>))))

\* Arity::demangle
Arity_demangle(t, i) ==
  Bind(tag_and_then(t, i, << ";" >>, "usize"), LAMBDA b :
    IF ~b.ok THEN Err
    ELSE
      Bind(Many1ArityItem(t, b.pos), LAMBDA m :
        IF ~m.ok THEN Err
        ELSE Ok(m.pos, PopInto(ArityReduce(m.val, << >>), b.val, EmptyMap)[1])))

RECURSIVE Arity_mangle(_)
\* Arity::mangle: ;<count> and then P<label><subtree> for each entry in the
\* order of the map. An Arity is the map to_fill, from labels to Arity.
Arity_mangle(a) ==
  Bind(SortedNames(DOMAIN a), LAMBDA names :
    << ";" >> \o ToDec(Cardinality(DOMAIN a))
    \o Concat([k \in 1..Len(names) |-> << "P" >> \o names[k] \o Arity_mangle(a[names[k]])]))

ParamAttr(a) == [tag |-> "Attr", attr |-> a]
ParamInterface(r, ps) == [tag |-> "Interface", rid |-> r, params |-> ps]

RECURSIVE Param_mangle(_)
\* Param::mangle
Param_mangle(x) ==
  IF x.tag = "Attr" THEN AttrText(x.attr)
  ELSE
    Bind(SortedNames(DOMAIN x.params), LAMBDA names :
      << "R" >> \o HexEncode(x.rid) \o << ";" >> \o ToDec(Cardinality(DOMAIN x.params))
      \o Concat([k \in 1..Len(names) |->
                   << ";" >> \o names[k] \o << ";" >> \o Param_mangle(x.params[names[k]])]))

RECURSIVE CountParams(_, _, _, _)
\* count((tag(";").and_then(alphanumeric1), tag(";").and_then(Param::demangle)), n)
CountParams(t, i, n, acc) ==
  IF n = 0 THEN Ok(i, acc)
  ELSE
    Bind(tag_and_then(t, i, << ";" >>, "alphanumeric1"), LAMBDA a :
      IF ~a.ok THEN Err
      ELSE
        Bind(tag_and_then(t, a.pos, << ";" >>, "Param::demangle"), LAMBDA b :
          IF ~b.ok THEN Err
          ELSE CountParams(t, b.pos, n - 1, Append(acc, << a.val, b.val >>))))

\* params.into_iter().map(..).collect(): a later pair replaces an earlier
\* one of the same label.
CollectParams(s) == CollectMethods(s)

\* parse_nonattr inside Param::demangle
parse_nonattr(t, i) ==
  Bind(tag_and_then(t, i, << "R" >>, "hex_id"), LAMBDA r :
    IF ~r.ok THEN Err
    ELSE
      Bind(tag_and_then(t, r.pos, << ";" >>, "usize"), LAMBDA n :
        IF ~n.ok THEN Err
        ELSE
          Bind(CountParams(t, n.pos, n.val, << >>), LAMBDA ps :
            IF ~ps.ok THEN Err
            ELSE Ok(ps.pos, ParamInterface(r.val, CollectParams(ps.val))))))

\* Param::demangle: parse_attr.map(Param::Attr).or(parse_nonattr)
Param_demangle(t, i) ==
  Bind(parse_attr(t, i), LAMBDA a :
    IF a.ok THEN Ok(a.pos, ParamAttr(a.val)) ELSE parse_nonattr(t, i))

\* ------------------------------------------------------------------------
\* Mangling as a state machine
\* ------------------------------------------------------------------------

\* The largest number of labelled entries of an Arity or Param under
\* construction.
MaxNodes == 3

Labels == { << "T" >>, << "k", "2" >> }

ParamAttrPool == { Attr(<< "a" >>, << "1" >>), Attr(<< "b" >>, << "x", "[", "y", "]" >>) }

\* The values a label of a Param can be given.
ParamLeaves ==
  { ParamAttr(a) : a \in ParamAttrPool } \cup { ParamInterface(r, EmptyMap) : r \in IdPool }

RECURSIVE ArityNodes(_)
\* The number of labelled entries of the tree.
ArityNodes(a) ==
  Bind(SortedNames(DOMAIN a), LAMBDA names :
    SumSeq([k \in 1..Len(names) |-> 1 + ArityNodes(a[names[k]])]))

RECURSIVE ArityPaths(_)
\* The paths (sequences of labels) to the nodes of the tree, the root included.
ArityPaths(a) ==
  { << >> } \cup UNION { { << l >> \o q : q \in ArityPaths(a[l]) } : l \in DOMAIN a }

RECURSIVE ArityInsertAt(_, _, _)
\* node.to_fill.insert(label, Arity::default()) at the node the path leads to
ArityInsertAt(a, path, label) ==
  IF path = << >> THEN MapInsert(a, label, EmptyMap)
  ELSE [a EXCEPT ![Head(path)] = ArityInsertAt(a[Head(path)], Tail(path), label)]

RECURSIVE ParamNodes(_)
ParamNodes(x) ==
  IF x.tag = "Attr" THEN 0
  ELSE
    Bind(SortedNames(DOMAIN x.params), LAMBDA names :
      SumSeq([k \in 1..Len(names) |-> 1 + ParamNodes(x.params[names[k]])]))

RECURSIVE ParamPaths(_)
\* The paths to the Interface nodes of the Param.
ParamPaths(x) ==
  IF x.tag = "Attr" THEN {}
  ELSE { << >> } \cup UNION { { << l >> \o q : q \in ParamPaths(x.params[l]) } : l \in DOMAIN x.params }

RECURSIVE ParamInsertAt(_, _, _, _)
\* params.insert(label, leaf) at the Interface node the path leads to
ParamInsertAt(x, path, label, leaf) ==
  IF path = << >> THEN [x EXCEPT !.params = MapInsert(x.params, label, leaf)]
  ELSE [x EXCEPT !.params[Head(path)] = ParamInsertAt(x.params[Head(path)], Tail(path), label, leaf)]

MangleInit ==
  /\ mkind \in {"Arity", "Param"}
  /\ mval \in (IF mkind = "Arity" THEN { EmptyMap } ELSE ParamLeaves)
  /\ mphase = "build"
  /\ mtext = << >>
  /\ mres = NoRes

\* The mangling variables when nothing is being mangled.
MangleIdle ==
  /\ mkind = "Arity"
  /\ mval = EmptyMap
  /\ mphase = "idle"
  /\ mtext = << >>
  /\ mres = NoRes

\* to_fill.insert(label, Arity::default()) somewhere in the tree
ArityInsert ==
  /\ mphase = "build" /\ mkind = "Arity"
  /\ ArityNodes(mval) < MaxNodes
  /\ \E path \in ArityPaths(mval), label \in Labels :
       mval' = ArityInsertAt(mval, path, label)
  /\ UNCHANGED << mkind, mphase, mtext, mres, ifaceVars, mergeVars >>

\* params.insert(label, leaf) somewhere in the Param
ParamInsert ==
  /\ mphase = "build" /\ mkind = "Param"
  /\ ParamNodes(mval) < MaxNodes
  /\ \E path \in ParamPaths(mval), label \in Labels, leaf \in ParamLeaves :
       mval' = ParamInsertAt(mval, path, label, leaf)
  /\ UNCHANGED << mkind, mphase, mtext, mres, ifaceVars, mergeVars >>

\* format!("{}", Mangled(&value))
MangleValue ==
  /\ mphase = "build"
  /\ mtext' = (IF mkind = "Arity" THEN Arity_mangle(mval) ELSE Param_mangle(mval))
  /\ mphase' = "mangled"
  /\ UNCHANGED << mkind, mval, mres, ifaceVars, mergeVars >>

\* Arity::demangle / Param::demangle on the mangled text
DemangleText ==
  /\ mphase = "mangled"
  /\ mres' = (IF mkind = "Arity" THEN Arity_demangle(mtext, 1) ELSE Param_demangle(mtext, 1))
  /\ mphase' = "demangled"
  /\ UNCHANGED << mkind, mval, mtext, ifaceVars, mergeVars >>

\* The largest child count written in a stream that is not the mangling of
\* a tree.
MaxCount == 2

\* The (label, childCount) pairs of such a stream: one or two of them.
StreamItems ==
  { << p >> : p \in Labels \X (0..MaxCount) }
    \cup { << p, q >> : p \in Labels \X (0..MaxCount), q \in Labels \X (0..MaxCount) }

\* The stream ;<b> followed by P<label>;<childCount> for each pair.
StreamText(b, items) ==
  << ";" >> \o ToDec(b)
  \o Concat([k \in 1..Len(items) |->
               << "P" >> \o items[k][1] \o << ";" >> \o ToDec(items[k][2])])

\* Arity::demangle on a stream written by hand: any root count, any pairs
DemangleStream ==
  /\ mphase = "build" /\ mkind = "Arity" /\ mval = EmptyMap
  /\ \E b \in 0..MaxCount, items \in StreamItems :
       /\ mval' = [count |-> b, items |-> items]
       /\ mtext' = StreamText(b, items)
       /\ mres' = Arity_demangle(mtext', 1)
  /\ mphase' = "stream"
  /\ UNCHANGED << mkind, ifaceVars, mergeVars >>

RECURSIVE is_simple_Inclusive(_, _)
\* A test that answers true at depth 0 for a tree without children, unlike
\* Arity::is_simple.
is_simple_Inclusive(a, depth) ==
  IF depth = 0 THEN DOMAIN a = {}
  ELSE \A l \in DOMAIN a : is_simple_Inclusive(a[l], depth - 1)

RECURSIVE is_simple(_, _)
\* Arity::is_simple: false at depth 0, else all children simple at depth - 1.
is_simple(a, depth) ==
  IF depth = 0 THEN FALSE
  ELSE \A l \in DOMAIN a : is_simple(a[l], depth - 1)

\* The greatest depth asked of is_simple.
MaxDepth == 4

\* Arity::is_simple(depth) on the tree
IsSimple ==
  /\ mphase = "build" /\ mkind = "Arity"
  /\ \E depth \in 0..MaxDepth :
       mres' = [ok |-> is_simple(mval, depth), depth |-> depth]
  /\ mphase' = "simple"
  /\ UNCHANGED << mkind, mval, mtext, ifaceVars, mergeVars >>

MangleNext ==
  \/ ArityInsert \/ ParamInsert \/ MangleValue \/ DemangleText \/ DemangleStream
  \/ IsSimple

\* The greatest number of a non-empty set.
MaxOf(S) == CHOOSE x \in S : \A y \in S : y <= x

RECURSIVE TreeDepth(_)
\* The depth of an Arity tree: 0 without children, else one more than the
\* greatest depth of a child.
TreeDepth(a) ==
  IF DOMAIN a = {} THEN 0 ELSE 1 + MaxOf({ TreeDepth(a[l]) : l \in DOMAIN a })

\* C25: Arity::is_simple(depth) is true exactly when the depth of the tree
\* is strictly less than depth, for every tree and every depth >= 0;
\* is_simple(0) is false for every tree and is_simple(1) is true exactly for
\* the tree without children.
C25_SimpleIffShallower ==
  mphase = "simple" =>
    /\ mres.ok <=> TreeDepth(mval) < mres.depth
    /\ mres.depth = 0 => ~mres.ok
    /\ mres.depth = 1 => (mres.ok <=> mval = EmptyMap)

\* A tree of depth 2 with a shallower branch beside the deep one was found
\* simple at depth 3; and a tree of depth 2 was found not simple at depth 2.
C25_Witness ==
  /\ mphase = "simple"
  /\ TreeDepth(mval) = 2
  /\ \/ mres.depth = 3 /\ mres.ok /\ Cardinality(DOMAIN mval) = 2
     \/ mres.depth = 2 /\ ~mres.ok

\* Every Attr inside the Param is one that parse_attr reads back as it is.
RECURSIVE ValidParam(_)
ValidParam(x) ==
  IF x.tag = "Attr" THEN ValidAttr(x.attr)
  ELSE \A l \in DOMAIN x.params : ValidParam(x.params[l])

\* The text is ;<count> followed by count times P<label><mangled subtree>.
RECURSIVE ArityTextShape(_, _)
ArityTextShape(a, t) ==
  \E order \in Perms(DOMAIN a) :
    t = << ";" >> \o ToDec(Len(order))
        \o Concat([k \in 1..Len(order) |-> << "P" >> \o order[k] \o Arity_mangle(a[order[k]])])

\* C6 as stated: the text of Arity::mangle(x) is ;<count> and count times
\* P<label><mangled subtree>, and Arity::demangle reads it back as x.
C6_ArityRoundTrip ==
  (mphase = "demangled" /\ mkind = "Arity") =>
    /\ ArityTextShape(mval, mtext)
    /\ mres.ok /\ mres.pos = Len(mtext) + 1 /\ mres.val = mval

\* C7 as stated: Param::demangle reads the text of Param::mangle(x) back as
\* x, for an Attr and for an Interface reference with nested Params.
C7_ParamRoundTrip ==
  (mphase = "demangled" /\ mkind = "Param" /\ ValidParam(mval)) =>
    mres.ok /\ mres.pos = Len(mtext) + 1 /\ mres.val = mval

RECURSIVE Underflows(_, _, _)
\* Reducing the pairs from the last to the first on a stack of the given
\* size, some pair, or the root count b at the end, asks for more items than
\* the stack holds.
Underflows(b, m, size) ==
  IF m = << >> THEN b > size
  ELSE \/ m[Len(m)][2] > size
       \/ Underflows(b, SubSeq(m, 1, Len(m) - 1),
                     (IF m[Len(m)][2] > size THEN 0 ELSE size - m[Len(m)][2]) + 1)

\* C14 as stated: on a well-formed stream in which a node or the root
\* declares more children than the stack holds, Arity::demangle succeeds,
\* reads the whole stream and returns the tree of the reduction from the end
\* of the stream, each node holding the items that were there.
C14_UnderflowTolerated ==
  (mphase = "stream" /\ Underflows(mval.count, mval.items, 0)) =>
    mres = Ok(Len(mtext) + 1,
              PopInto(ArityReduce(mval.items, << >>), mval.count, EmptyMap)[1])

\* ------------------------------------------------------------------------
\* Info: merging (lib.rs merge, info.rs)
\* ------------------------------------------------------------------------

RECURSIVE AttrMap(_, _)
\* for x in a.into_iter().chain(b) { m.insert(x.name, x.value) }
AttrMap(l, m) ==
  IF l = << >> THEN m ELSE AttrMap(Tail(l), MapInsert(m, Head(l).name, Head(l).value))

\* merge with the earlier attribute kept on a conflict, unlike the code.
merge_FirstWins(a, b) ==
  Bind(a \o b, LAMBDA l :
  Bind(AttrMap([k \in 1..Len(l) |-> l[Len(l) + 1 - k]], EmptyMap), LAMBDA m :
  Bind(SortedNames(DOMAIN m), LAMBDA names :
    [k \in 1..Len(names) |-> Attr(names[k], m[names[k]])])))

\* merge read out in descending order of name, unlike the code.
merge_Descending(a, b) ==
  Bind(AttrMap(a \o b, EmptyMap), LAMBDA m :
  Bind(SortedNames(DOMAIN m), LAMBDA names :
    [k \in 1..Len(names) |-> Attr(names[Len(names) + 1 - k], m[names[Len(names) + 1 - k]])]))

\* merge(a, b): the attributes of a then b put into a map keyed by name, a
\* later one replacing an earlier one of the same name, and read out in
\* ascending order of name.
merge(a, b) ==
  Bind(AttrMap(a \o b, EmptyMap), LAMBDA m :
  Bind(SortedNames(DOMAIN m), LAMBDA names :
    [k \in 1..Len(names) |-> Attr(names[k], m[names[k]])]))

ParamEntry(attrs) == [attrs |-> attrs]
MethEntry(attrs, params, returns) == [attrs |-> attrs, params |-> params, returns |-> returns]
InfoEntry(attrs, methods) == [attrs |-> attrs, methods |-> methods]
Info(interfaces) == [interfaces |-> interfaces]

ParamEntry_default == ParamEntry(<< >>)
MethEntry_default == MethEntry(<< >>, EmptyMap, EmptyMap)
InfoEntry_default == InfoEntry(<< >>, EmptyMap)
Info_default == Info(EmptyMap)

\* ParamEntry::merge
ParamEntry_merge(self, x) == ParamEntry(merge(self.attrs, x.attrs))

RECURSIVE SortedIdx(_)
\* The keys of a BTreeMap<usize, _> in ascending order.
SortedIdx(S) ==
  IF S = {} THEN << >>
  ELSE
    Bind(CHOOSE n \in S : \A o \in S : n <= o, LAMBDA m :
      << m >> \o SortedIdx(S \ {m}))

RECURSIVE IdLess(_, _)
\* The order of [u8; 32]: byte by byte.
IdLess(a, b) ==
  IF a = << >> \/ b = << >> THEN FALSE
  ELSE IF Head(a) # Head(b) THEN Head(a) < Head(b)
  ELSE IdLess(Tail(a), Tail(b))

RECURSIVE SortedIds(_)
\* The keys of a BTreeMap<[u8; 32], _> in ascending order.
SortedIds(S) ==
  IF S = {} THEN << >>
  ELSE
    Bind(CHOOSE n \in S : \A o \in S : ~IdLess(o, n), LAMBDA m :
      << m >> \o SortedIds(S \ {m}))

\* map.into_iter(): the (key, value) pairs in the order of the keys.
PairsOf(m, keys) == [k \in 1..Len(keys) |-> << keys[k], m[keys[k]] >>]

RECURSIVE ParamLoop(_, _)
\* for (idx, param) in ..chain(..) {
\*   let merged = params.remove(&idx).unwrap_or_default().merge(param);
\*   params.insert(idx, merged) }
ParamLoop(pairs, m) ==
  IF pairs = << >> THEN m
  ELSE
    Bind(Head(pairs)[1], LAMBDA idx :
    Bind(IF idx \in DOMAIN m THEN m[idx] ELSE ParamEntry_default, LAMBDA old :
      ParamLoop(Tail(pairs), MapInsert(m, idx, ParamEntry_merge(old, Head(pairs)[2])))))

\* A merge that keeps the return slots of self only, unlike the code.
MethEntry_merge_SelfReturns(self, x) ==
  MethEntry(merge(self.attrs, x.attrs),
            ParamLoop(PairsOf(self.params, SortedIdx(DOMAIN self.params))
                        \o PairsOf(x.params, SortedIdx(DOMAIN x.params)), EmptyMap),
            ParamLoop(PairsOf(self.returns, SortedIdx(DOMAIN self.returns)), EmptyMap))

\* MethEntry::merge
MethEntry_merge(self, x) ==
  MethEntry(merge(self.attrs, x.attrs),
            ParamLoop(PairsOf(self.params, SortedIdx(DOMAIN self.params))
                        \o PairsOf(x.params, SortedIdx(DOMAIN x.params)), EmptyMap),
            ParamLoop(PairsOf(self.returns, SortedIdx(DOMAIN self.returns))
                        \o PairsOf(x.returns, SortedIdx(DOMAIN x.returns)), EmptyMap))

RECURSIVE MethLoop(_, _)
\* The loop of InfoEntry::merge over the methods of both sides.
MethLoop(pairs, m) ==
  IF pairs = << >> THEN m
  ELSE
    Bind(Head(pairs)[1], LAMBDA a :
    Bind(IF a \in DOMAIN m THEN m[a] ELSE MethEntry_default, LAMBDA old :
      MethLoop(Tail(pairs), MapInsert(m, a, MethEntry_merge(old, Head(pairs)[2])))))

\* InfoEntry::merge
InfoEntry_merge(self, x) ==
  InfoEntry(merge(self.attrs, x.attrs),
            MethLoop(PairsOf(self.methods, SortedNames(DOMAIN self.methods))
                       \o PairsOf(x.methods, SortedNames(DOMAIN x.methods)), EmptyMap))

RECURSIVE EntryLoop_KeepNew(_, _)
\* A loop that stores the entry of a new id as it is and merges only into an
\* entry already stored, unlike the code.
EntryLoop_KeepNew(pairs, m) ==
  IF pairs = << >> THEN m
  ELSE
    Bind(Head(pairs)[1], LAMBDA a :
      EntryLoop_KeepNew(Tail(pairs),
        MapInsert(m, a, IF a \in DOMAIN m THEN InfoEntry_merge(m[a], Head(pairs)[2])
                        ELSE Head(pairs)[2])))

RECURSIVE EntryLoop(_, _)
\* The loop of Info::merge over the interfaces of both sides.
EntryLoop(pairs, m) ==
  IF pairs = << >> THEN m
  ELSE
    Bind(Head(pairs)[1], LAMBDA a :
    Bind(IF a \in DOMAIN m THEN m[a] ELSE InfoEntry_default, LAMBDA old :
      EntryLoop(Tail(pairs), MapInsert(m, a, InfoEntry_merge(old, Head(pairs)[2])))))

\* A merge that goes through the interfaces of self only, unlike the code.
Info_merge_SelfKeys(self, x) ==
  Info(EntryLoop(PairsOf(self.interfaces, SortedIds(DOMAIN self.interfaces)), EmptyMap))

\* Info::merge
Info_merge(self, x) ==
  Info(EntryLoop(PairsOf(self.interfaces, SortedIds(DOMAIN self.interfaces))
                   \o PairsOf(x.interfaces, SortedIds(DOMAIN x.interfaces)), EmptyMap))

\* ------------------------------------------------------------------------
\* Info: text (info.rs Display, InfoEntry::parse, Info::parse)
\* ------------------------------------------------------------------------

\* Lines written in ascending order of attribute name and not in the order
\* of the list, unlike the code.
AttrLines_Sorted(prefix, attrs) ==
  Concat([k \in 1..Len(attrs) |-> prefix \o AttrText(SortByName(attrs)[k]) \o << "\n" >>])

\* for a in attrs.iter() { writeln!(f, "<prefix>{a}") }
AttrLines(prefix, attrs) ==
  Concat([k \in 1..Len(attrs) |-> prefix \o AttrText(attrs[k]) \o << "\n" >>])

\* Lines that all start with the word param, unlike the code, which starts
\* those of the returns with the word return.
SlotLines_ParamWord(word, name, m) ==
  Bind(SortedIdx(DOMAIN m), LAMBDA keys :
    Concat([k \in 1..Len(keys) |->
              AttrLines(<< "p", "a", "r", "a", "m", " " >> \o name \o << " " >>
                          \o ToDec(keys[k]) \o << " " >>,
                        m[keys[k]].attrs)]))

\* for (idx, param) in m.iter() { for a in param.attrs.iter() {
\*   writeln!(f, "<word> {k} {idx} {a}") } }
SlotLines(word, name, m) ==
  Bind(SortedIdx(DOMAIN m), LAMBDA keys :
    Concat([k \in 1..Len(keys) |->
              AttrLines(word \o << " " >> \o name \o << " " >> \o ToDec(keys[k]) \o << " " >>,
                        m[keys[k]].attrs)]))

\* The lines of one method of an InfoEntry.
MethLines(name, me) ==
  AttrLines(<< "m", "e", "t", "h", "o", "d", " " >> \o name \o << " " >>, me.attrs)
  \o SlotLines(<< "p", "a", "r", "a", "m" >>, name, me.params)
  \o SlotLines(<< "r", "e", "t", "u", "r", "n" >>, name, me.returns)

\* impl Display for InfoEntry
InfoEntry_fmt(e) ==
  Bind(SortedNames(DOMAIN e.methods), LAMBDA names :
    AttrLines(<< "r", "o", "o", "t", " " >>, e.attrs)
    \o Concat([k \in 1..Len(names) |-> MethLines(names[k], e.methods[names[k]])]))

\* impl Display for Info: write!(f, "{}: [{}]", hex::encode(i), j)
Info_fmt(info) ==
  Bind(SortedIds(DOMAIN info.interfaces), LAMBDA ids :
    Concat([k \in 1..Len(ids) |->
              HexEncode(ids[k]) \o << ":", " ", "[" >>
              \o InfoEntry_fmt(info.interfaces[ids[k]]) \o << "]" >>]))

\* index_str.parse::<usize>(): the decimal digits of a usize; an error on any
\* other character and on a value above usize::MAX. A numeral of more than 9
\* digits is beyond the integers held here and is read as an error; no text
\* written here holds one.
parse_usize(str) ==
  IF \E k \in 1..Len(str) : str[k] \notin DigitChars THEN Err
  ELSE IF Len(StripDecZeros(str)) > 9 THEN Err
  ELSE Ok(0, DecValue(str))

\* The rest of a param or return line after its keyword:
\* name, index, attribute.
SlotLine(t, i, kind) ==
  Bind(alphanumeric1(t, multispace0(t, i)), LAMBDA n :
    IF ~n.ok THEN Err
    ELSE
      Bind(alphanumeric1(t, multispace0(t, n.pos)), LAMBDA x :
        IF ~x.ok THEN Err
        ELSE
          Bind(parse_usize(x.val), LAMBDA idx :
            IF ~idx.ok THEN Err
            ELSE
              Bind(parse_attr(t, multispace0(t, x.pos)), LAMBDA a :
                IF ~a.ok THEN Err
                ELSE Ok(a.pos, [kind |-> kind, name |-> n.val, index |-> idx.val,
                                attr |-> a.val])))))

\* parse_info_line: the first keyword that matches decides the shape of the
\* line; an error after it is the error of the line.
parse_info_line(t, i) ==
  Bind(multispace0(t, i), LAMBDA s :
    IF StartsWith(t, s, << "r", "o", "o", "t" >>) THEN
      Bind(parse_attr(t, multispace0(t, s + 4)), LAMBDA a :
        IF ~a.ok THEN Err ELSE Ok(a.pos, [kind |-> "Root", attr |-> a.val]))
    ELSE IF StartsWith(t, s, << "p", "a", "r", "a", "m" >>) THEN SlotLine(t, s + 5, "Param")
    ELSE IF StartsWith(t, s, << "r", "e", "t", "u", "r", "n" >>) THEN SlotLine(t, s + 6, "Return")
    ELSE IF StartsWith(t, s, << "m", "e", "t", "h", "o", "d" >>) THEN
      Bind(alphanumeric1(t, multispace0(t, s + 6)), LAMBDA n :
        IF ~n.ok THEN Err
        ELSE
          Bind(parse_attr(t, multispace0(t, n.pos)), LAMBDA a :
            IF ~a.ok THEN Err
            ELSE Ok(a.pos, [kind |-> "Method", name |-> n.val, attr |-> a.val])))
    ELSE Err)

RECURSIVE Many0InfoLine(_, _, _)
\* many0(parse_info_line)
Many0InfoLine(t, i, acc) ==
  Bind(parse_info_line(t, i), LAMBDA r :
    IF ~r.ok THEN Ok(i, acc)
    ELSE IF r.pos = i THEN Err
    ELSE Many0InfoLine(t, r.pos, Append(acc, r.val)))

\* A loop body that files every param and return under the index 0, unlike
\* the code.
PushLine_IndexZero(e, l) ==
  IF l.kind = "Root" THEN [e EXCEPT !.attrs = Append(@, l.attr)]
  ELSE
    Bind(GetOr(e.methods, l.name, MethEntry_default), LAMBDA me :
      IF l.kind = "Method"
      THEN [e EXCEPT !.methods = MapInsert(@, l.name, [me EXCEPT !.attrs = Append(@, l.attr)])]
      ELSE
        Bind(IF l.kind = "Param" THEN "params" ELSE "returns", LAMBDA side :
          [e EXCEPT !.methods = MapInsert(@, l.name,
             [me EXCEPT ![side] =
                MapInsert(@, 0,
                  ParamEntry(Append(GetOr(me[side], 0, ParamEntry_default).attrs,
                                    l.attr)))])]))

\* The body of `for line in lines`: the attribute of the line pushed at its
\* place, the entries on the way created with or_insert_with(Default::default).
PushLine(e, l) ==
  IF l.kind = "Root" THEN [e EXCEPT !.attrs = Append(@, l.attr)]
  ELSE
    Bind(GetOr(e.methods, l.name, MethEntry_default), LAMBDA me :
      IF l.kind = "Method"
      THEN [e EXCEPT !.methods = MapInsert(@, l.name, [me EXCEPT !.attrs = Append(@, l.attr)])]
      ELSE
        Bind(IF l.kind = "Param" THEN "params" ELSE "returns", LAMBDA side :
          [e EXCEPT !.methods = MapInsert(@, l.name,
             [me EXCEPT ![side] =
                MapInsert(@, l.index,
                  ParamEntry(Append(GetOr(me[side], l.index, ParamEntry_default).attrs,
                                    l.attr)))])]))

RECURSIVE PushLines(_, _)
PushLines(e, lines) ==
  IF lines = << >> THEN e ELSE PushLines(PushLine(e, Head(lines)), Tail(lines))

\* The sort_by_key calls at the end of InfoEntry::parse: every attribute list
\* sorted by name.
SortEntry(e) ==
  InfoEntry(SortByName(e.attrs),
            [n \in DOMAIN e.methods |->
               MethEntry(SortByName(e.methods[n].attrs),
                         [k \in DOMAIN e.methods[n].params |->
                            ParamEntry(SortByName(e.methods[n].params[k].attrs))],
                         [k \in DOMAIN e.methods[n].returns |->
                            ParamEntry(SortByName(e.methods[n].returns[k].attrs))])])

\* InfoEntry::parse
InfoEntry_parse(t, i) ==
  Bind(Many0InfoLine(t, multispace0(t, i), << >>), LAMBDA ls :
    IF ~ls.ok THEN Err
    ELSE Ok(multispace0(t, ls.pos), SortEntry(PushLines(InfoEntry_default, ls.val))))

\* parse_interface_entry inside Info::parse: 64 hexadecimal digits, ':' and
\* an InfoEntry in square brackets.
parse_interface_entry(t, i) ==
  Bind(hex_id(t, multispace0(t, i)), LAMBDA id :
    IF ~id.ok THEN Err
    ELSE
      Bind(multispace0(t, id.pos), LAMBDA c :
        IF ~StartsWith(t, c, << ":" >>) THEN Err
        ELSE
          Bind(multispace0(t, c + 1), LAMBDA b :
            IF ~StartsWith(t, b, << "[" >>) THEN Err
            ELSE
              Bind(InfoEntry_parse(t, b + 1), LAMBDA e :
                IF ~e.ok THEN Err
                ELSE IF ~StartsWith(t, e.pos, << "]" >>) THEN Err
                ELSE Ok(e.pos + 1, << id.val, e.val >>)))))

RECURSIVE Many0InterfaceEntry(_, _, _)
\* many0(parse_interface_entry)
Many0InterfaceEntry(t, i, acc) ==
  Bind(parse_interface_entry(t, i), LAMBDA r :
    IF ~r.ok THEN Ok(i, acc)
    ELSE IF r.pos = i THEN Err
    ELSE Many0InterfaceEntry(t, r.pos, Append(acc, r.val)))

\* Info::parse: the entries collected into the map, a later one replacing an
\* earlier one of the same id.
Info_parse(t, i) ==
  Bind(Many0InterfaceEntry(t, i, << >>), LAMBDA es :
    IF ~es.ok THEN Err ELSE Ok(es.pos, Info(CollectMethods(es.val))))

\* ------------------------------------------------------------------------
\* Merging as a state machine
\* ------------------------------------------------------------------------

\* The largest number of attributes pushed on the three Info values together.
MaxPush == 3

MergeAttrPool ==
  { Attr(<< "a" >>, << "1" >>), Attr(<< "a" >>, << "2" >>), Attr(<< "b" >>, << "1" >>) }

\* The attributes pushed at a slot: all of them at the root of an interface,
\* the two of one name below it.
SlotAttrs(slot) ==
  IF slot[1] = "root" THEN MergeAttrPool ELSE { a \in MergeAttrPool : a.name = << "a" >> }

MethName == << "m" >>

\* The places of an Info where attributes are pushed: the root of an
\* interface, a method, a parameter or a return value by index.
SlotPool ==
  { << "root", IdA >>, << "meth", IdA, MethName >>,
    << "param", IdA, MethName, 0 >>, << "return", IdB, MethName, 2 >> }

\* interfaces.insert(id, e2) / methods.insert(name, m2)
PutEntry(info, id, e2) == Info(MapInsert(info.interfaces, id, e2))
PutMeth(e, name, m2) == [e EXCEPT !.methods = MapInsert(@, name, m2)]

\* The Info after attr is pushed on the attribute list at the slot, the
\* entries on the way being created with or_default().
PushAt(info, slot, attr) ==
  Bind(IF slot[2] \in DOMAIN info.interfaces THEN info.interfaces[slot[2]]
       ELSE InfoEntry_default, LAMBDA e :
    IF slot[1] = "root" THEN PutEntry(info, slot[2], [e EXCEPT !.attrs = Append(@, attr)])
    ELSE
      Bind(IF slot[3] \in DOMAIN e.methods THEN e.methods[slot[3]]
           ELSE MethEntry_default, LAMBDA me :
        IF slot[1] = "meth"
        THEN PutEntry(info, slot[2], PutMeth(e, slot[3], [me EXCEPT !.attrs = Append(@, attr)]))
        ELSE
          Bind(IF slot[1] = "param" THEN "params" ELSE "returns", LAMBDA side :
          Bind(IF slot[4] \in DOMAIN me[side] THEN me[side][slot[4]]
               ELSE ParamEntry_default, LAMBDA pe :
            PutEntry(info, slot[2], PutMeth(e, slot[3],
              [me EXCEPT ![side] =
                 MapInsert(@, slot[4], ParamEntry(Append(pe.attrs, attr)))]))))))

\* The attribute list at the slot, or the empty list when the slot is absent.
AttrsAt(info, slot) ==
  IF slot[2] \notin DOMAIN info.interfaces THEN << >>
  ELSE
    Bind(info.interfaces[slot[2]], LAMBDA e :
      IF slot[1] = "root" THEN e.attrs
      ELSE IF slot[3] \notin DOMAIN e.methods THEN << >>
      ELSE
        Bind(e.methods[slot[3]], LAMBDA me :
        Bind(IF slot[1] = "param" THEN "params" ELSE "returns", LAMBDA side :
          IF slot[1] = "meth" THEN me.attrs
          ELSE IF slot[4] \notin DOMAIN me[side] THEN << >>
          ELSE me[side][slot[4]].attrs)))

\* The slots present in the Info: its interface ids, method names and
\* param/return indices.
Slots(info) ==
  Bind(info.interfaces, LAMBDA I :
    { << "root", id >> : id \in DOMAIN I }
    \cup UNION { { << "meth", id, m >> : m \in DOMAIN I[id].methods } : id \in DOMAIN I }
    \cup UNION { UNION { { << "param", id, m, k >> : k \in DOMAIN I[id].methods[m].params }
                         : m \in DOMAIN I[id].methods } : id \in DOMAIN I }
    \cup UNION { UNION { { << "return", id, m, k >> : k \in DOMAIN I[id].methods[m].returns }
                         : m \in DOMAIN I[id].methods } : id \in DOMAIN I })

RECURSIVE SumLens(_, _)
SumLens(info, S) ==
  IF S = {} THEN 0
  ELSE
    Bind(CHOOSE y \in S : TRUE, LAMBDA x :
      Len(AttrsAt(info, x)) + SumLens(info, S \ {x}))

\* The number of attributes in the Info.
Pushed(info) == SumLens(info, Slots(info))

NoOut == [done |-> FALSE]

MergeInit ==
  /\ ia = Info_default /\ ib = Info_default /\ ic = Info_default
  /\ gphase = "build"
  /\ out = NoOut

\* The merging variables when nothing is being merged.
MergeIdle ==
  /\ ia = Info_default /\ ib = Info_default /\ ic = Info_default
  /\ gphase = "idle"
  /\ out = NoOut

\* The entries of the Info that hold nothing: an interface without
\* attributes and methods, a method without attributes, params and returns, a
\* param or return without attributes.
Empties(info) ==
  { slot \in Slots(info) :
      /\ AttrsAt(info, slot) = << >>
      /\ slot[1] = "root" => info.interfaces[slot[2]].methods = EmptyMap
      /\ slot[1] = "meth" =>
           /\ info.interfaces[slot[2]].methods[slot[3]].params = EmptyMap
           /\ info.interfaces[slot[2]].methods[slot[3]].returns = EmptyMap }

\* The Info after entry(..).or_default() at the slot and on the way to it.
InsertDefault(info, slot) ==
  Bind(GetOr(info.interfaces, slot[2], InfoEntry_default), LAMBDA e :
    IF slot[1] = "root" THEN PutEntry(info, slot[2], e)
    ELSE
      Bind(GetOr(e.methods, slot[3], MethEntry_default), LAMBDA me :
        IF slot[1] = "meth" THEN PutEntry(info, slot[2], PutMeth(e, slot[3], me))
        ELSE
          Bind(IF slot[1] = "param" THEN "params" ELSE "returns", LAMBDA side :
            PutEntry(info, slot[2], PutMeth(e, slot[3],
              [me EXCEPT ![side] =
                 MapInsert(@, slot[4], GetOr(@, slot[4], ParamEntry_default))])))))

CanPush ==
  /\ gphase = "build"
  /\ Pushed(ia) + Pushed(ib) + Pushed(ic) + Cardinality(Empties(ia)) < MaxPush

\* attrs.push(attr) somewhere in the first Info
PushA ==
  /\ CanPush
  /\ \E slot \in SlotPool : \E attr \in SlotAttrs(slot) : ia' = PushAt(ia, slot, attr)
  /\ UNCHANGED << ib, ic, gphase, out, ifaceVars, mangleVars >>

\* attrs.push(attr) somewhere in the second Info
PushB ==
  /\ CanPush
  /\ \E slot \in SlotPool : \E attr \in SlotAttrs(slot) : ib' = PushAt(ib, slot, attr)
  /\ UNCHANGED << ia, ic, gphase, out, ifaceVars, mangleVars >>

\* attrs.push(attr) somewhere in the third Info
PushC ==
  /\ CanPush
  /\ \E slot \in SlotPool : \E attr \in SlotAttrs(slot) : ic' = PushAt(ic, slot, attr)
  /\ UNCHANGED << ia, ib, gphase, out, ifaceVars, mangleVars >>

\* The merges are made: Info::default().merge(a), a.merge(b), b.merge(a),
\* a.merge(b).merge(c), a.merge(b.merge(c)), a.merge(b).merge(b) and
\* a.merge(a).
DoMerge ==
  /\ gphase = "build"
  /\ out' = [ done |-> TRUE,
              da |-> Info_merge(Info_default, ia),
              ab |-> Info_merge(ia, ib),
              ba |-> Info_merge(ib, ia),
              ab_c |-> Info_merge(Info_merge(ia, ib), ic),
              a_bc |-> Info_merge(ia, Info_merge(ib, ic)),
              ab_b |-> Info_merge(Info_merge(ia, ib), ib),
              aa |-> Info_merge(ia, ia) ]
  /\ gphase' = "merged"
  /\ UNCHANGED << ia, ib, ic, ifaceVars, mangleVars >>

\* entry(..).or_default() somewhere in the first Info: an entry that holds
\* no attribute
AddEmptyA ==
  /\ CanPush
  /\ \E slot \in SlotPool \ Slots(ia) : ia' = InsertDefault(ia, slot)
  /\ UNCHANGED << ib, ic, gphase, out, ifaceVars, mangleVars >>

\* format!("{info}") of the first Info, the two others being empty
ShowInfo ==
  /\ gphase = "build"
  /\ ib = Info_default /\ ic = Info_default
  /\ out' = [done |-> FALSE, text |-> Info_fmt(ia)]
  /\ gphase' = "shown"
  /\ UNCHANGED << ia, ib, ic, ifaceVars, mangleVars >>

\* Info::parse on the text of the Info, and InfoEntry::parse on the text of
\* each of its entries
ParseInfo ==
  /\ gphase = "shown"
  /\ out' = [ done |-> FALSE, text |-> out.text,
              res |-> Info_parse(out.text, 1),
              entries |-> [id \in DOMAIN ia.interfaces |->
                             InfoEntry_parse(InfoEntry_fmt(ia.interfaces[id]), 1)] ]
  /\ gphase' = "read"
  /\ UNCHANGED << ia, ib, ic, ifaceVars, mangleVars >>

\* ------------------------------------------------------------------------
\* Properties of merging
\* ------------------------------------------------------------------------

\* The list is in strictly ascending order of name: sorted, no name twice.
StrictlySorted(l) == \A k \in 1..(Len(l) - 1) : StrLess(l[k].name, l[k + 1].name)

NamesOf(l) == { l[k].name : k \in 1..Len(l) }

\* The value of the last attribute named n in the list.
LastValue(l, n) ==
  LET k == CHOOSE j \in 1..Len(l) : l[j].name = n /\ \A i \in (j + 1)..Len(l) : l[i].name # n
  IN l[k].value

\* r holds one attribute for each name of a or b, with the value of the last
\* occurrence of the name in a followed by b.
RightWinsUnion(a, b, r) ==
  /\ NamesOf(r) = NamesOf(a \o b)
  /\ \A j, k \in 1..Len(r) : r[j].name = r[k].name => j = k
  /\ \A k \in 1..Len(r) : r[k].value = LastValue(a \o b, r[k].name)

\* C8 as stated: Info::default().merge(x) == x for every Info x, however its
\* attribute lists were built.
C8_AnyInfo == gphase = "merged" => out.da = ia

\* C8, for normalised lists: Info::default().merge(x) == x for every Info x
\* whose attribute lists are all in strictly ascending order of name.
C8_MergeIdentity ==
  (gphase = "merged" /\ \A slot \in Slots(ia) : StrictlySorted(AttrsAt(ia, slot))) => out.da = ia

\* An Info with two attributes in one list, in ascending order, was merged
\* into the default and came back equal.
C8_Witness ==
  /\ gphase = "merged" /\ out.da = ia
  /\ \A slot \in Slots(ia) : StrictlySorted(AttrsAt(ia, slot))
  /\ \E slot \in Slots(ia) : Len(AttrsAt(ia, slot)) >= 2

\* C9: at every level (interface, method, parameter, return value) the list
\* of a.merge(b) holds exactly one attribute for each name occurring in the
\* list of a or of b at that place, with the value of the last occurrence in
\* a followed by b.
C9_RightWins ==
  gphase = "merged" =>
    \A slot \in Slots(ia) \cup Slots(ib) \cup Slots(out.ab) :
      RightWinsUnion(AttrsAt(ia, slot), AttrsAt(ib, slot), AttrsAt(out.ab, slot))

\* The two sides hold the same name with different values in a parameter
\* list, and the merge has the value of the right side.
C9_Witness ==
  /\ gphase = "merged"
  /\ \E slot \in Slots(ia) \cap Slots(ib) :
       /\ slot[1] = "param"
       /\ \E j \in 1..Len(AttrsAt(ia, slot)), k \in 1..Len(AttrsAt(ib, slot)) :
            /\ AttrsAt(ia, slot)[j].name = AttrsAt(ib, slot)[k].name
            /\ AttrsAt(ia, slot)[j].value # AttrsAt(ib, slot)[k].value
            /\ AttrsAt(ib, slot)[k] \in { AttrsAt(out.ab, slot)[i] : i \in 1..Len(AttrsAt(out.ab, slot)) }

\* The values of the attributes named n in the list.
ValuesOf(l, n) == { l[k].value : k \in { j \in 1..Len(l) : l[j].name = n } }

\* C10: a.merge(b).merge(c) == a.merge(b.merge(c)); a.merge(b) and
\* b.merge(a) have the same interface ids, method names and param/return
\* indices and the same attribute names at each place, and differ only in
\* the values of names that occur on both sides with different values.
C10_AssocKeyComm ==
  gphase = "merged" =>
    /\ out.ab_c = out.a_bc
    /\ Slots(out.ab) = Slots(out.ba)
    /\ Slots(out.ab) = Slots(ia) \cup Slots(ib)
    /\ \A slot \in Slots(out.ab) :
         Bind(AttrsAt(out.ab, slot), LAMBDA x :
         Bind(AttrsAt(out.ba, slot), LAMBDA y :
           /\ Len(x) = Len(y)
           /\ \A k \in 1..Len(x) :
                /\ x[k].name = y[k].name
                /\ x[k].value # y[k].value =>
                     /\ x[k].name \in NamesOf(AttrsAt(ia, slot)) \cap NamesOf(AttrsAt(ib, slot))
                     /\ Cardinality(ValuesOf(AttrsAt(ia, slot) \o AttrsAt(ib, slot), x[k].name)) >= 2))

\* The three Info values hold an attribute of the same name at one place,
\* the second with another value than the first and the third; a.merge(b)
\* and b.merge(a) differ there, and both groupings of the three end with the
\* value of the third.
C10_Witness ==
  /\ gphase = "merged"
  /\ out.ab # out.ba
  /\ out.ab_c = out.a_bc
  /\ \E slot \in Slots(ia) \cap Slots(ib) \cap Slots(ic) :
       /\ AttrsAt(ia, slot) # AttrsAt(ib, slot)
       /\ AttrsAt(ib, slot) # AttrsAt(ic, slot)
       /\ AttrsAt(out.ab_c, slot) = AttrsAt(ic, slot)

\* r has the keys of a and of b and no other at the level of the methods and
\* at the level of the params and returns below each method.
UnionBelow(a, b, r) ==
  /\ DOMAIN r.methods = DOMAIN a.methods \cup DOMAIN b.methods
  /\ \A n \in DOMAIN r.methods :
       /\ DOMAIN r.methods[n].params =
            DOMAIN GetOr(a.methods, n, MethEntry_default).params
              \cup DOMAIN GetOr(b.methods, n, MethEntry_default).params
       /\ DOMAIN r.methods[n].returns =
            DOMAIN GetOr(a.methods, n, MethEntry_default).returns
              \cup DOMAIN GetOr(b.methods, n, MethEntry_default).returns

\* Where a and b both hold the key, r holds the merge of the two entries, the
\* entry of a first: at the methods and at the params and returns below them.
MergedBelow(a, b, r) ==
  \A n \in DOMAIN a.methods \cap DOMAIN b.methods :
    /\ r.methods[n] = MethEntry_merge(a.methods[n], b.methods[n])
    /\ \A k \in DOMAIN a.methods[n].params \cap DOMAIN b.methods[n].params :
         r.methods[n].params[k] =
           ParamEntry_merge(a.methods[n].params[k], b.methods[n].params[k])
    /\ \A k \in DOMAIN a.methods[n].returns \cap DOMAIN b.methods[n].returns :
         r.methods[n].returns[k] =
           ParamEntry_merge(a.methods[n].returns[k], b.methods[n].returns[k])

\* C11: the interface ids of a.merge(b) are the union of those of a and of b,
\* and so are the method names of each interface and the param and return
\* indices of each method: no key is dropped and none invented; an entry
\* whose key is on both sides is the merge of the two entries, that of a
\* first.
C11_KeyUnion ==
  gphase = "merged" =>
    /\ DOMAIN out.ab.interfaces = DOMAIN ia.interfaces \cup DOMAIN ib.interfaces
    /\ \A id \in DOMAIN out.ab.interfaces :
         UnionBelow(GetOr(ia.interfaces, id, InfoEntry_default),
                    GetOr(ib.interfaces, id, InfoEntry_default),
                    out.ab.interfaces[id])
    /\ \A id \in DOMAIN ia.interfaces \cap DOMAIN ib.interfaces :
         /\ out.ab.interfaces[id] = InfoEntry_merge(ia.interfaces[id], ib.interfaces[id])
         /\ MergedBelow(ia.interfaces[id], ib.interfaces[id], out.ab.interfaces[id])

\* The two sides hold different interfaces, and one interface and method on
\* both sides with a parameter on the left only; the merge holds both
\* interfaces and, in the shared method, the parameter of the left and the
\* attributes of the right.
C11_Witness ==
  /\ gphase = "merged"
  /\ DOMAIN ia.interfaces # DOMAIN ib.interfaces
  /\ DOMAIN ib.interfaces \ DOMAIN ia.interfaces # {}
  /\ DOMAIN out.ab.interfaces = DOMAIN ia.interfaces \cup DOMAIN ib.interfaces
  /\ \E id \in DOMAIN ia.interfaces \cap DOMAIN ib.interfaces :
       \E n \in DOMAIN ia.interfaces[id].methods \cap DOMAIN ib.interfaces[id].methods :
         /\ ia.interfaces[id].methods[n].params # EmptyMap
         /\ ib.interfaces[id].methods[n].params = EmptyMap
         /\ ib.interfaces[id].methods[n].attrs # << >>
         /\ out.ab.interfaces[id].methods[n].params = ia.interfaces[id].methods[n].params
         /\ out.ab.interfaces[id].methods[n].attrs = ib.interfaces[id].methods[n].attrs

\* Info::parse read the whole text of the first Info and returned it, and
\* InfoEntry::parse did so for each of its entries.
ReadBackInfo ==
  /\ out.res = Ok(Len(out.text) + 1, ia)
  /\ \A id \in DOMAIN ia.interfaces :
       out.entries[id] =
         Ok(Len(InfoEntry_fmt(ia.interfaces[id])) + 1, ia.interfaces[id])

\* No attribute list of the Info holds a name twice.
NoDuplicateNames(info) ==
  \A slot \in Slots(info) :
    \A j, k \in 1..Len(AttrsAt(info, slot)) :
      AttrsAt(info, slot)[j].name = AttrsAt(info, slot)[k].name => j = k

\* C12 as stated: every Info without a name twice in an attribute list is
\* read back whole and equal from its text, and so is each of its entries.
C12_NoDuplicateNames ==
  (gphase = "read" /\ NoDuplicateNames(ia)) => ReadBackInfo

\* What the text keeps of an Info: the lists in strictly ascending order of
\* name, attributes that parse_attr reads back, method names of letters and
\* digits, and an attribute in every param and return and in or below every
\* method.
Textual(info) ==
  /\ \A slot \in Slots(info) :
       /\ StrictlySorted(AttrsAt(info, slot))
       /\ \A k \in 1..Len(AttrsAt(info, slot)) : ValidAttr(AttrsAt(info, slot)[k])
       /\ slot[1] # "root" => alphanumeric1(slot[3], 1) = Ok(Len(slot[3]) + 1, slot[3])
  /\ \A slot \in Empties(info) : slot[1] = "root"

\* C12, for trees the text can hold: every Info whose attribute lists are in
\* strictly ascending order of name, whose attributes are ones parse_attr
\* reads back, whose method names are made of letters and digits and whose
\* methods, params and returns each hold an attribute (in or below them) is
\* read back whole and equal by Info::parse from its Display text, and each
\* of its entries by InfoEntry::parse.
C12_InfoRoundTrip ==
  (gphase = "read" /\ Textual(ia)) => ReadBackInfo

\* An Info of two interfaces, one with two attributes in a list and one with
\* an attribute on a return value, was shown and read back equal.
C12_Witness ==
  /\ gphase = "read" /\ Textual(ia) /\ ReadBackInfo
  /\ Cardinality(DOMAIN ia.interfaces) = 2
  /\ \E slot \in Slots(ia) : Len(AttrsAt(ia, slot)) = 2
  /\ \E slot \in Slots(ia) : slot[1] = "return" /\ AttrsAt(ia, slot) # << >>

\* Every attribute list of the Info is in strictly ascending order of name.
NormalForm(info) == \A slot \in Slots(info) : StrictlySorted(AttrsAt(info, slot))

\* C26: every attribute list at every level of the result of one or more
\* merges, entries whose key came from one side only included, is in
\* strictly ascending order of name with no name twice; and merging is
\* idempotent on results: a.merge(b).merge(b) == a.merge(b) and
\* x.merge(x) == Info::default().merge(x).
C26_NormalForm ==
  gphase = "merged" =>
    /\ NormalForm(out.da) /\ NormalForm(out.ab) /\ NormalForm(out.ba)
    /\ NormalForm(out.ab_c) /\ NormalForm(out.a_bc)
    /\ NormalForm(out.ab_b) /\ NormalForm(out.aa)
    /\ out.ab_b = out.ab
    /\ out.aa = out.da

\* The first Info holds, at a slot the second does not have, a list that is
\* not in strictly ascending order; the second is not empty and holds an
\* attribute that replaces one of the first; the merge has the list in
\* order and merging the second again changes nothing.
C26_Witness ==
  /\ gphase = "merged"
  /\ \E slot \in Slots(ia) \ Slots(ib) :
       /\ ~StrictlySorted(AttrsAt(ia, slot))
       /\ StrictlySorted(AttrsAt(out.ab, slot))
       /\ AttrsAt(out.ab, slot) # << >>
  /\ Slots(ib) # {}
  /\ out.ab # ia
  /\ out.ab_b = out.ab
  /\ out.aa = out.da /\ out.aa # ia

\* ------------------------------------------------------------------------
\* The lines of an InfoEntry
\* ------------------------------------------------------------------------

\* The most lines of one InfoEntry text, and attributes pushed on one entry.
MaxLines == 3

RootLine(a) == [kind |-> "Root", attr |-> a]
MethodLine(n, a) == [kind |-> "Method", name |-> n, attr |-> a]
ParamLine(n, i, a) == [kind |-> "Param", name |-> n, index |-> i, attr |-> a]
ReturnLine(n, i, a) == [kind |-> "Return", name |-> n, index |-> i, attr |-> a]

\* The lines of the model: three attributes at the root, two methods, two
\* param indices of which the greater is the lesser as a string, a return.
LinePool ==
  { RootLine(Attr(<< "a" >>, << "1" >>)), RootLine(Attr(<< "a" >>, << "2" >>)),
    RootLine(Attr(<< "b" >>, << "1" >>)),
    MethodLine(<< "m" >>, Attr(<< "a" >>, << "1" >>)),
    MethodLine(<< "k" >>, Attr(<< "a" >>, << "1" >>)),
    ParamLine(<< "m" >>, 10, Attr(<< "a" >>, << "1" >>)),
    ParamLine(<< "m" >>, 2, Attr(<< "a" >>, << "1" >>)),
    ReturnLine(<< "m" >>, 0, Attr(<< "a" >>, << "1" >>)) }

RECURSIVE LineSeqs(_)
\* The sequences of up to n lines of the pool.
LineSeqs(n) ==
  IF n = 0 THEN { << >> }
  ELSE LineSeqs(n - 1) \cup { Append(l, x) : l \in { q \in LineSeqs(n - 1) : Len(q) = n - 1 }, x \in LinePool }

\* One line as the four writeln! of Display for InfoEntry shape it.
LineText(l) ==
  (IF l.kind = "Root" THEN << "r", "o", "o", "t", " " >>
   ELSE IF l.kind = "Method" THEN << "m", "e", "t", "h", "o", "d", " " >> \o l.name \o << " " >>
   ELSE (IF l.kind = "Param" THEN << "p", "a", "r", "a", "m", " " >>
         ELSE << "r", "e", "t", "u", "r", "n", " " >>)
        \o l.name \o << " " >> \o ToDec(l.index) \o << " " >>)
  \o AttrText(l.attr) \o << "\n" >>

RECURSIVE SplitLines(_)
\* The lines of a text, each with the newline that ends it.
SplitLines(t) ==
  IF t = << >> THEN << >>
  ELSE
    Bind(FindChar(t, 1, "\n"), LAMBDA e :
      IF e = 0 THEN << t >>
      ELSE << SubSeq(t, 1, e) >> \o SplitLines(SubSeq(t, e + 1, Len(t))))

\* Attributes pushed one by one on the lists of a new InfoEntry, and its
\* Display text
ShowEntry ==
  /\ gphase = "build"
  /\ ia = Info_default /\ ib = Info_default /\ ic = Info_default
  /\ \E ls \in LineSeqs(MaxLines) :
       out' = [ done |-> FALSE, pushes |-> ls,
                entry |-> PushLines(InfoEntry_default, ls),
                text |-> InfoEntry_fmt(PushLines(InfoEntry_default, ls)) ]
  /\ gphase' = "entry"
  /\ UNCHANGED << ia, ib, ic, ifaceVars, mangleVars >>

\* The place of a line in the tree: its method name, the kind of slot in
\* the order Display visits them, its index.
SameSlot(r, q) ==
  /\ r.kind = q.kind
  /\ r.kind # "Root" => r.name = q.name
  /\ r.kind \in {"Param", "Return"} => r.index = q.index

KindRank(r) == IF r.kind = "Method" THEN 0 ELSE IF r.kind = "Param" THEN 1 ELSE 2

\* The slot of r comes before that of q in ascending key order: the root
\* first, then the methods by name, in each its own attributes, its params
\* by index, its returns by index.
SlotBefore(r, q) ==
  IF r.kind = "Root" THEN q.kind # "Root"
  ELSE IF q.kind = "Root" THEN FALSE
  ELSE IF r.name # q.name THEN StrLess(r.name, q.name)
  ELSE IF KindRank(r) # KindRank(q) THEN KindRank(r) < KindRank(q)
  ELSE r.kind # "Method" /\ r.index < q.index

\* The line of the pool that is written as the text s.
LineOf(s) == CHOOSE l \in LinePool : LineText(l) = s

\* The lines of the text are of the four shapes, one per attribute pushed,
\* and the slots follow each other in ascending key order.
FourShapesInKeyOrder ==
  Bind(SplitLines(out.text), LAMBDA ls :
    /\ Len(ls) = Len(out.pushes)
    /\ \A k \in 1..Len(ls) : \E l \in LinePool : LineText(l) = ls[k]
    /\ \A l \in LinePool :
         Cardinality({ k \in 1..Len(ls) : ls[k] = LineText(l) })
           = Cardinality({ k \in 1..Len(out.pushes) : out.pushes[k] = l })
    /\ \A k \in 1..(Len(ls) - 1) : ~SlotBefore(LineOf(ls[k + 1]), LineOf(ls[k])))

\* C22 as stated: the Display text of every InfoEntry is made of the four
\* kinds of lines, one per stored attribute, the slots in ascending key order
\* and the attributes of each slot in ascending order of name, whatever
\* their order in the stored list.
C22_AttrsSortedByName ==
  gphase = "entry" =>
    /\ FourShapesInKeyOrder
    /\ Bind(SplitLines(out.text), LAMBDA ls :
         \A k \in 1..(Len(ls) - 1) :
           SameSlot(LineOf(ls[k]), LineOf(ls[k + 1])) =>
             ~StrLess(LineOf(ls[k + 1]).attr.name, LineOf(ls[k]).attr.name))

\* C22, in stored order: the Display text of every InfoEntry is made of the
\* four kinds of lines, one per stored attribute, the methods, params and
\* returns in ascending key order, and the attributes of each slot in the
\* order of the stored list, which is the order in which they were pushed.
C22_AttrsInStoredOrder ==
  gphase = "entry" =>
    /\ FourShapesInKeyOrder
    /\ Bind(SplitLines(out.text), LAMBDA ls :
         \A l \in LinePool :
           SelectSeq([k \in 1..Len(ls) |-> LineOf(ls[k])], LAMBDA r : SameSlot(r, l))
             = SelectSeq(out.pushes, LAMBDA r : SameSlot(r, l)))

\* An entry with the param 10 pushed before the param 2 and another method
\* was shown with the param 2 first; and the root attributes pushed b then a
\* were shown b then a.
C22_Witness ==
  /\ gphase = "entry"
  /\ \/ /\ Len(out.pushes) = 3
        /\ out.pushes[1] = ParamLine(<< "m" >>, 10, Attr(<< "a" >>, << "1" >>))
        /\ out.pushes[2] = ParamLine(<< "m" >>, 2, Attr(<< "a" >>, << "1" >>))
        /\ out.pushes[3].kind = "Method" /\ out.pushes[3].name = << "k" >>
        /\ SplitLines(out.text) =
             << LineText(out.pushes[3]), LineText(out.pushes[2]), LineText(out.pushes[1]) >>
     \/ /\ out.pushes = << RootLine(Attr(<< "b" >>, << "1" >>)), RootLine(Attr(<< "a" >>, << "1" >>)) >>
        /\ SplitLines(out.text) = << LineText(out.pushes[1]), LineText(out.pushes[2]) >>

\* InfoEntry::parse on a sequence of well-formed lines
ReadLines ==
  /\ gphase = "build"
  /\ ia = Info_default /\ ib = Info_default /\ ic = Info_default
  /\ \E ls \in LineSeqs(MaxLines) :
       Bind(Concat([k \in 1..Len(ls) |-> LineText(ls[k])]), LAMBDA t :
         out' = [ done |-> FALSE, lines |-> ls, text |-> t, res |-> InfoEntry_parse(t, 1) ])
  /\ gphase' = "lines"
  /\ UNCHANGED << ia, ib, ic, ifaceVars, mangleVars >>

\* The slot a line names, in an Info that holds the entry under the id IdA.
SlotOf(l) ==
  IF l.kind = "Root" THEN << "root", IdA >>
  ELSE IF l.kind = "Method" THEN << "meth", IdA, l.name >>
  ELSE IF l.kind = "Param" THEN << "param", IdA, l.name, l.index >>
  ELSE << "return", IdA, l.name, l.index >>

\* The attributes of the lines that name the slot, in the order of the text.
LineAttrs(ls, slot) ==
  Bind(SelectSeq(ls, LAMBDA l : SlotOf(l) = slot), LAMBDA sel :
    [k \in 1..Len(sel) |-> sel[k].attr])

\* C23: for every sequence of well-formed root, method, param and return
\* lines, InfoEntry::parse consumes all of them and returns a tree that holds
\* the root, the methods named by the lines and the params and returns they
\* index and no others, in which the attribute list of every slot holds the
\* attributes of the lines naming it, in ascending order of name, those of
\* one name all kept and in the order of the lines; the tree holds as many
\* attributes as there are lines.
C23_OneAttributePerLine ==
  gphase = "lines" =>
    /\ out.res.ok /\ out.res.pos = Len(out.text) + 1
    /\ Bind(PutEntry(Info_default, IdA, out.res.val), LAMBDA info :
         /\ Slots(info) = { << "root", IdA >> }
                           \cup { SlotOf(out.lines[k]) : k \in 1..Len(out.lines) }
                           \cup { << "meth", IdA, out.lines[k].name >> :
                                   k \in { j \in 1..Len(out.lines) : out.lines[j].kind # "Root" } }
         /\ Pushed(info) = Len(out.lines)
         /\ \A slot \in Slots(info) :
              /\ Len(AttrsAt(info, slot)) = Len(LineAttrs(out.lines, slot))
              /\ SortedAnn(AttrsAt(info, slot))
              /\ \A l \in LinePool :
                   Named(AttrsAt(info, slot), l.attr.name)
                     = Named(LineAttrs(out.lines, slot), l.attr.name))

\* The lines root [b=1], root [a=2], root [a=1] were read as the root list
\* [a=2], [a=1], [b=1]; and a param line of index 10 and a return line
\* created the method they name with one param and one return.
C23_Witness ==
  /\ gphase = "lines" /\ out.res.ok
  /\ \/ /\ out.lines = << RootLine(Attr(<< "b" >>, << "1" >>)),
                          RootLine(Attr(<< "a" >>, << "2" >>)),
                          RootLine(Attr(<< "a" >>, << "1" >>)) >>
        /\ out.res.val.attrs = << Attr(<< "a" >>, << "2" >>), Attr(<< "a" >>, << "1" >>),
                                  Attr(<< "b" >>, << "1" >>) >>
     \/ /\ Len(out.lines) = 2
        /\ out.lines[1].kind = "Param" /\ out.lines[1].index = 10
        /\ out.lines[2].kind = "Return"
        /\ DOMAIN out.res.val.methods = { << "m" >> }
        /\ DOMAIN out.res.val.methods[<< "m" >>].params = { 10 }
        /\ DOMAIN out.res.val.methods[<< "m" >>].returns = { 0 }
        /\ out.res.val.methods[<< "m" >>].attrs = << >>

\* ------------------------------------------------------------------------
\* Texts given to the parsers
\* ------------------------------------------------------------------------

\* The text given to a parser f, before any result.
Given(t, f) == [panic |-> FALSE, text |-> t, fn |-> f]

\* No interface has been built and nothing rendered or parsed.
Fresh == Building /\ iface = Interface(EmptyMap, << >>)

\* Texts in the place of the 64 hexadecimal digits of an id that are not 64
\* hexadecimal digits: one digit short, one digit more, one character that
\* is no hexadecimal digit.
MalformedIds ==
  UNION { { SubSeq(HexEncode(id), 1, 2 * IdBytes - 1),
            HexEncode(id) \o << "0" >>,
            [HexEncode(id) EXCEPT ![10] = "g"] } : id \in IdPool }

\* The places where an id is read.
IdReaders == {"parse_resty", "parse_arg", "parse_interface", "Info::parse", "Param::demangle"}

\* The text that holds the digits d where the reader f reads an id.
IdContext(f, d) ==
  CASE f = "parse_resty" -> d
    [] f = "parse_arg" -> << "R" >> \o d
    [] f = "parse_interface" ->
         << "{", "f", "o", "o", "(", "R" >> \o d \o << ")", " ", "-", ">", " ", "(", ")", "}" >>
    [] f = "Info::parse" -> d \o << ":", " ", "[", "]" >>
    [] f = "Param::demangle" -> << "R" >> \o d \o << ";", "0" >>

\* The reader f applied to the text t.
ReadId(f, t) ==
  CASE f = "parse_resty" -> parse_resty(t, 1)
    [] f = "parse_arg" -> parse_arg(t, 1)
    [] f = "parse_interface" -> parse_interface(t, 1)
    [] f = "Info::parse" -> Info_parse(t, 1)
    [] f = "Param::demangle" -> Param_demangle(t, 1)

\* A reader is given a text with a malformed id.
ParseMalformedId ==
  /\ Fresh
  /\ \E f \in IdReaders, d \in MalformedIds :
       /\ text' = Given(IdContext(f, d), f)
       /\ res' = ReadId(f, text'.text)
  /\ phase' = "malformed"
  /\ UNCHANGED << iface, mangleVars, mergeVars >>

\* Display of the Interface that parse_interface read from the whole text,
\* and parse_interface and Display once more on the text displayed
Rerender ==
  /\ phase = "parsed"
  /\ res.ok /\ res.pos = Len(text.text) + 1
  /\ \E checks \in BOOLEAN :
       Bind(Interface_fmt(res.val, checks), LAMBDA c :
         res' = [ ok |-> TRUE, pos |-> res.pos, val |-> res.val, build |-> checks,
                  again |-> c,
                  back |-> IF c.panic THEN Err ELSE parse_interface(c.text, 1),
                  twice |-> IF c.panic \/ ~parse_interface(c.text, 1).ok THEN RenderPanic
                            ELSE Interface_fmt(parse_interface(c.text, 1).val, checks) ])
  /\ phase' = "rerendered"
  /\ UNCHANGED << iface, text, mangleVars, mergeVars >>

OtherSigs(v) == { v.methods[m] : m \in DOMAIN v.methods } \cup { Sig(<< >>, << >>, << >>) }

\* The text of iface with the method n declared once more with the signature
\* s, before all other declarations or after them.
TwiceText(v, n, s, last) ==
  AttrsText(v.ann) \o << "{" >>
  \o (IF last THEN << >> ELSE n \o Sig_render(s, NoneVer) \o << ";" >>)
  \o Join([k \in 1..Len(RenderOrder(v.methods)) |->
             RenderOrder(v.methods)[k] \o Sig_render(v.methods[RenderOrder(v.methods)[k]], NoneVer)],
          << ";" >>)
  \o (IF last THEN << ";" >> \o n \o Sig_render(s, NoneVer) ELSE << >>)
  \o << "}" >>

\* A text that declares one method name twice, with different signatures
WriteTwice ==
  /\ Building
  /\ \E n \in DOMAIN iface.methods, last \in BOOLEAN :
       \E s \in OtherSigs(iface) \ { iface.methods[n] } :
         text' = [ panic |-> FALSE, text |-> TwiceText(iface, n, s, last),
                   twice |-> [name |-> n, sig |-> s, last |-> last] ]
  /\ phase' = "written"
  /\ UNCHANGED << iface, res, mangleVars, mergeVars >>

\* The text declares a method twice.
DeclaresTwice == phase \in {"parsed", "rerendered"} /\ "twice" \in DOMAIN text

\* C19: when the text given to parse_interface (its annotations and
\* signatures otherwise well formed and in canonical order) declares one
\* method name twice, the parse succeeds on the whole text and the Interface
\* holds the methods of the text with one entry for that name, whose Sig is
\* that of the last occurrence in the text.
C19_LastDeclarationWins ==
  (DeclaresTwice /\ phase = "parsed" /\ ValidComponents(iface) /\ AllSorted(iface)) =>
    /\ res.ok /\ res.pos = Len(text.text) + 1
    /\ DOMAIN res.val.methods = DOMAIN iface.methods
    /\ res.val.ann = iface.ann
    /\ \A m \in DOMAIN iface.methods :
         res.val.methods[m] =
           IF m = text.twice.name /\ text.twice.last THEN text.twice.sig ELSE iface.methods[m]

\* A method was declared first with one signature and then with another that
\* takes an argument, and the parsed Interface holds the second.
C19_Witness ==
  /\ DeclaresTwice /\ phase = "parsed" /\ ValidComponents(iface) /\ AllSorted(iface)
  /\ res.ok
  /\ text.twice.last
  /\ text.twice.sig.params # << >>
  /\ res.val.methods[text.twice.name] = text.twice.sig
  /\ res.val.methods[text.twice.name] # iface.methods[text.twice.name]

\* The most annotations written before one argument.
MaxAnn == 3

\* Annotations written before an argument: two names, two values.
ArgAnnPool == { Attr(<< n >>, << v >>) : n \in {"a", "b"}, v \in {"1", "2"} }

RECURSIVE AnnSeqs(_)
\* The lists of up to n annotations of the pool.
AnnSeqs(n) ==
  IF n = 0 THEN { << >> }
  ELSE AnnSeqs(n - 1) \cup { Append(l, x) : l \in { q \in AnnSeqs(n - 1) : Len(q) = n - 1 }, x \in ArgAnnPool }

\* parse_arg on a resource argument with leading annotations
ParseArgText ==
  /\ Fresh
  /\ \E l \in AnnSeqs(MaxAnn), suffix \in { << "R" >>, << "R", "t", "h", "i", "s", "n", "&" >> } :
       /\ text' = Given(AttrsText(l) \o suffix, "parse_arg")
       /\ res' = [ ok |-> parse_arg(AttrsText(l) \o suffix, 1).ok,
                   got |-> parse_arg(AttrsText(l) \o suffix, 1),
                   given |-> l ]
  /\ phase' = "arg"
  /\ UNCHANGED << iface, mangleVars, mergeVars >>

\* C20 as stated: the ann list of the Arg::Resource returned by parse_arg
\* holds the annotations in the order in which they appear in the text.
C20_TextOrder ==
  phase = "arg" => (res.ok /\ res.got.val.ann = res.given)

\* C20, sorted: the ann list of the Arg::Resource returned by parse_arg for
\* a resource argument text with leading annotations holds those annotations
\* in ascending order of name, the annotations of one name all kept (not
\* deduplicated) and in the order in which they appear in the text.
C20_AnnSortedByName ==
  phase = "arg" =>
    /\ res.ok /\ res.got.pos = Len(text.text) + 1
    /\ res.got.val.tag = "Resource"
    /\ Len(res.got.val.ann) = Len(res.given)
    /\ SortedAnn(res.got.val.ann)
    /\ \A x \in ArgAnnPool : Named(res.got.val.ann, x.name) = Named(res.given, x.name)

\* [b=..][a=1][a=2] and the like: an annotation named b written first came
\* back last, and two annotations named a with different values came back
\* in the order of the text.
C20_Witness ==
  /\ phase = "arg" /\ res.ok
  /\ Len(res.given) = 3
  /\ res.given[1].name = << "b" >>
  /\ res.given[2].name = << "a" >> /\ res.given[3].name = << "a" >>
  /\ res.given[2].value # res.given[3].value
  /\ res.got.val.ann = << res.given[2], res.given[3], res.given[1] >>

\* What may follow a list of attributes: nothing, a brace, blanks and a
\* letter, an attribute that is not closed.
AttrsTailPool == { << >>, << "{" >>, << " ", " ", "X" >>, << "[", "k" >>, << "R" >> }

\* parse_attrs on zero or more attributes followed by other text
ParseAttrsText ==
  /\ Fresh
  /\ \E l \in AnnSeqs(MaxAnn), tl \in AttrsTailPool :
       /\ text' = Given(AttrsText(l) \o tl, "parse_attrs")
       /\ res' = [ ok |-> parse_attrs(AttrsText(l) \o tl, 1).ok,
                   got |-> parse_attrs(AttrsText(l) \o tl, 1),
                   given |-> l, tail |-> tl ]
  /\ phase' = "attrs"
  /\ UNCHANGED << iface, mangleVars, mergeVars >>

\* C21: parse_attrs returns all of the zero or more leading attributes,
\* in ascending order of name, the attributes of one name in the order of the
\* text and none removed or merged; with no leading attribute it succeeds
\* with the empty list and consumes nothing, blanks included.
C21_StableSorted ==
  phase = "attrs" =>
    /\ res.ok
    /\ Len(res.got.val) = Len(res.given)
    /\ SortedAnn(res.got.val)
    /\ \A x \in ArgAnnPool : Named(res.got.val, x.name) = Named(res.given, x.name)
    /\ res.given = << >> => res.got = Ok(1, << >>)
    /\ res.given # << >> =>
         res.got.pos = multispace0(text.text, Len(AttrsText(res.given)) + 1)

\* Three attributes written [b=..][a=2][a=1] came back with the two named a
\* first, in the order of the text; and a text that starts with blanks and
\* no attribute was left whole.
C21_Witness ==
  /\ phase = "attrs" /\ res.ok
  /\ \/ /\ Len(res.given) = 3
        /\ res.given[1].name = << "b" >>
        /\ res.given[2] = Attr(<< "a" >>, << "2" >>)
        /\ res.given[3] = Attr(<< "a" >>, << "1" >>)
        /\ res.got.val = << res.given[2], res.given[3], res.given[1] >>
     \/ /\ res.given = << >> /\ res.tail = << " ", " ", "X" >>
        /\ res.got = Ok(1, << >>)

\* The text of an interface with one method m whose only parameter is
\* written as argText.
OneArgText(argText) ==
  << "{", "m", "(" >> \o argText \o << ")", " ", "-", ">", " ", "(", ")", "}" >>

\* parse_arg on annotations followed by a primitive token and on the token
\* alone, and parse_interface on texts that differ in these annotations only,
\* before a primitive and before a resource argument
ParseAnnotatedPrim ==
  /\ Fresh
  /\ \E l \in AnnSeqs(MaxAnn), p \in PrimTags :
       /\ text' = Given(OneArgText(AttrsText(l) \o PrimText(p)), "parse_interface")
       /\ res' = [ ok |-> parse_arg(AttrsText(l) \o PrimText(p), 1).ok,
                   given |-> l, prim |-> p,
                   argA |-> parse_arg(AttrsText(l) \o PrimText(p), 1),
                   arg0 |-> parse_arg(PrimText(p), 1),
                   primA |-> parse_interface(OneArgText(AttrsText(l) \o PrimText(p)), 1),
                   prim0 |-> parse_interface(OneArgText(PrimText(p)), 1),
                   resA |-> parse_interface(OneArgText(AttrsText(l) \o << "R" >>), 1),
                   res0 |-> parse_interface(OneArgText(<< "R" >>), 1) ]
  /\ phase' = "primann"
  /\ UNCHANGED << iface, mangleVars, mergeVars >>

\* The only parameter of the only method of the interface.
OnlyParam(v) == v.methods[<< "m" >>].params[1]

\* C27: for every attribute list A and primitive token P, parse_arg on A
\* followed by P returns the same Arg as parse_arg on P alone; two interface
\* texts that differ only in the annotations of a primitive argument parse
\* to equal Interface values with equal rid; the same annotations before a
\* resource argument are all kept in its ann list and change the rid.
C27_PrimAnnotationsDropped ==
  phase = "primann" =>
    /\ res.argA.ok /\ res.arg0.ok
    /\ res.argA.val = res.arg0.val /\ res.argA.val = Prim(res.prim)
    /\ res.argA.pos = Len(AttrsText(res.given)) + 4
    /\ res.primA.ok /\ res.primA.pos = Len(text.text) + 1
    /\ res.prim0.ok /\ res.primA.val = res.prim0.val
    /\ \A checks \in BOOLEAN :
         /\ ~rid(res.primA.val, checks).panic
         /\ rid(res.primA.val, checks) = rid(res.prim0.val, checks)
    /\ res.resA.ok /\ res.res0.ok
    /\ OnlyParam(res.resA.val).tag = "Resource"
    /\ Len(OnlyParam(res.resA.val).ann) = Len(res.given)
    /\ \A x \in ArgAnnPool :
         Named(OnlyParam(res.resA.val).ann, x.name) = Named(res.given, x.name)
    /\ res.given # << >> =>
         \A checks \in BOOLEAN : rid(res.resA.val, checks) # rid(res.res0.val, checks)

\* Two annotations were written before F64 and dropped, and the same two
\* before a resource argument were kept and changed the rid.
C27_Witness ==
  /\ phase = "primann"
  /\ Len(res.given) = 2 /\ res.given[1].name # res.given[2].name
  /\ res.prim = "F64"
  /\ res.argA = Ok(Len(AttrsText(res.given)) + 4, Prim("F64"))
  /\ res.primA.val = res.prim0.val
  /\ Len(OnlyParam(res.resA.val).ann) = 2
  /\ rid(res.resA.val, TRUE) # rid(res.res0.val, TRUE)

\* C18 as stated, for rendering: Display and rid of any Interface value, one
\* obtained by parsing accepted text included, complete without panicking.
C18_RenderNeverPanics ==
  /\ phase = "rendered" => (~text.panic /\ \A checks \in BOOLEAN : ~rid(iface, checks).panic)
  /\ phase = "rerendered" => (~res.again.panic /\ ~rid(res.val, res.build).panic)

RECURSIVE Depth(_)
\* Opening brackets less closing brackets of s.
Depth(s) ==
  IF s = << >> THEN 0
  ELSE Depth(SubSeq(s, 1, Len(s) - 1))
       + (IF s[Len(s)] = "[" THEN 1 ELSE IF s[Len(s)] = "]" THEN -1 ELSE 0)

\* The square brackets of s are balanced: no prefix closes more than it opens
\* and the whole opens as many as it closes.
BalancedBrackets(s) ==
  /\ Depth(s) = 0
  /\ \A k \in 1..Len(s) : Depth(SubSeq(s, 1, k)) >= 0

\* s without its leading whitespace.
TrimStart(s) == SubSeq(s, multispace0(s, 1), Len(s))

\* Names without '=' and values given to parse_attr, among them nested and
\* unbalanced brackets and leading or trailing whitespace.
AttrNamePool == { << >>, << "k" >>, << " ", "k" >>, << "k", " " >> }
AttrValuePool ==
  { << >>, << "v" >>, << "a", "[", "b", "]", "c" >>, << "[", "[", "x", "]", "]" >>,
    << "[", "a", "]", "[", "b", "]" >>, << "x", "=", "y" >>, << " ", "v" >>,
    << "v", " " >>, << "\t" >>, << "a", "[", "b" >>, << "a", "]", "b" >> }
AttrTailPool == { << >>, << " ", " " >>, << "X" >>, << "]" >> }

\* The longest number of characters cut from the end of a text.
MaxCut == 2

\* parse_attr on [name=value] followed by a tail, or on that text cut short
ParseAttrText ==
  /\ Fresh
  /\ \E n \in AttrNamePool, v \in AttrValuePool, tl \in AttrTailPool, cut \in 0..MaxCut :
       /\ cut > 0 => tl = << >>
       /\ Bind(<< "[" >> \o n \o << "=" >> \o v \o << "]" >> \o tl, LAMBDA full :
          Bind(SubSeq(full, 1, Len(full) - cut), LAMBDA t :
            /\ text' = Given(t, "parse_attr")
            /\ res' = [ ok |-> parse_attr(t, 1).ok, got |-> parse_attr(t, 1),
                        name |-> n, value |-> v, tail |-> tl, cut |-> cut ]))
  /\ phase' = "attr"
  /\ UNCHANGED << iface, mangleVars, mergeVars >>

\* C16 as stated: for every input [name=value] whose value has balanced
\* square brackets, parse_attr returns that name and exactly that value.
C16_ExactNameValue ==
  (phase = "attr" /\ res.cut = 0 /\ BalancedBrackets(res.value)) =>
    (res.ok /\ res.got.val = Attr(res.name, res.value))

\* C16: for every input [name=value] with a name free of '=' and a value
\* with balanced square brackets, parse_attr returns the name and the value
\* without their leading whitespace (so exactly those given when they start
\* with none), nested brackets included, and stops after the closing bracket
\* and the whitespace after it; whatever the input, a value returned is
\* balanced and is followed in the text by the closing bracket that
\* parse_attr consumed; if the input ends before that bracket the parse
\* fails.
C16_BalancedValue ==
  phase = "attr" =>
    /\ (res.cut = 0 /\ BalancedBrackets(res.value)) =>
         /\ res.ok
         /\ res.got.val = Attr(TrimStart(res.name), TrimStart(res.value))
         /\ res.got.pos = 4 + Len(res.name) + Len(res.value)
                           + (IF res.tail = << " ", " " >> THEN 2 ELSE 0)
    /\ res.ok =>
         /\ BalancedBrackets(res.got.val.value)
         /\ \E e \in 1..Len(text.text) :
              /\ text.text[e] = "]"
              /\ e - Len(res.got.val.value) >= 1
              /\ SubSeq(text.text, e - Len(res.got.val.value), e - 1) = res.got.val.value
              /\ res.got.pos = multispace0(text.text, e + 1)
    /\ (res.cut > 0 /\ BalancedBrackets(res.value)) => ~res.ok

\* The value a[b]c and the doubly nested [[x]] were returned whole, and a
\* text cut before the closing bracket was rejected.
C16_Witness ==
  /\ phase = "attr"
  /\ \/ /\ res.ok /\ res.cut = 0
        /\ res.got.val.value \in { << "a", "[", "b", "]", "c" >>, << "[", "[", "x", "]", "]" >> }
        /\ res.got.val.name = << "k" >>
     \/ /\ ~res.ok /\ res.cut = 1 /\ res.value = << "a", "[", "b", "]", "c" >>

\* Versions given to from_ver: 0, 1, 2, 16, 17, 256, 2^60 and usize::MAX.
VerPool ==
  { << >>, << 1 >>, << 2 >>, << 1, 0 >>, << 1, 1 >>, << 1, 0, 0 >>,
    [k \in 1..(UsizeHexDigits - 1) |-> IF k = 1 THEN 1 ELSE 0],
    [k \in 1..UsizeHexDigits |-> 15] }

WasmAbiVer == << "w", "a", "s", "m", "A", "b", "i", "V", "e", "r" >>
VerNames == { WasmAbiVer, RidFmtVer }

\* Attr::from_ver(ver, a) and, on the attribute made, as_ver(b)
FromVer ==
  /\ Fresh
  /\ \E ver \in VerPool, a \in VerNames, b \in VerNames, checks \in BOOLEAN :
       res' = [ ok |-> from_ver(ver, a).kind = "some",
                ver |-> ver, name |-> a, asked |-> b,
                made |-> IF a = WasmAbiVer THEN from_wasm_abi(ver) ELSE from_ver(ver, a),
                back |-> IF from_ver(ver, a).kind = "some"
                         THEN as_ver(from_ver(ver, a).attr, b, checks) ELSE NoneVer ]
  /\ phase' = "ver"
  /\ UNCHANGED << iface, text, mangleVars, mergeVars >>

\* C15: from_ver(0, n), and so from_wasm_abi(0), is None; for every version
\* v >= 1 and name n, from_ver(v, n) is an attribute named n whose as_ver(n)
\* is Some(v) in every build, and whose as_ver with another name is None.
C15_VersionRoundTrip ==
  phase = "ver" =>
    /\ res.ver = << >> => res.made = NoneAttr
    /\ res.ver # << >> =>
         /\ res.made.kind = "some"
         /\ res.made.attr.name = res.name
         /\ res.asked = res.name => res.back = SomeVer(res.ver)
         /\ res.asked # res.name => res.back = NoneVer

\* The version 16, written with a borrow as the numeral f, and the version
\* usize::MAX were encoded and decoded back.
C15_Witness ==
  /\ phase = "ver"
  /\ res.asked = res.name
  /\ res.ver \in { << 1, 0 >>, [k \in 1..UsizeHexDigits |-> 15] }
  /\ res.back = SomeVer(res.ver)
  /\ res.ver = << 1, 0 >> => res.made.attr.value = << "f" >>

\* Values given to as_ver: the numerals 0, 1, f, 0f, usize::MAX - 1 and
\* usize::MAX, a numeral above usize::MAX, and texts that are no numerals.
VerValuePool ==
  { << "0" >>, << "1" >>, << "f" >>, << "0", "f" >>, << "F", "f" >>,
    [k \in 1..UsizeHexDigits |-> IF k = UsizeHexDigits THEN "e" ELSE "f"],
    [k \in 1..UsizeHexDigits |-> "f"],
    [k \in 1..(UsizeHexDigits + 1) |-> IF k = 1 THEN "1" ELSE "0"],
    << >>, << "z", "z" >>, << "1", " " >>, << "0", "x", "1" >> }

\* Attr::as_ver on an attribute with one of the values
AsVer ==
  /\ Fresh
  /\ \E v \in VerValuePool, a \in VerNames, b \in VerNames, checks \in BOOLEAN :
       res' = [ ok |-> as_ver(Attr(a, v), b, checks).kind = "some",
                attr |-> Attr(a, v), asked |-> b, build |-> checks,
                back |-> as_ver(Attr(a, v), b, checks) ]
  /\ phase' = "asver"
  /\ UNCHANGED << iface, text, mangleVars, mergeVars >>

\* The value is a hexadecimal numeral: one or more hexadecimal digits.
HexNumeral(v) == v # << >> /\ \A k \in 1..Len(v) : v[k] \in HexChars

\* The number a hexadecimal numeral denotes, as its digits.
HexValue(v) == StripZeros([k \in 1..Len(v) |-> HexVal(v[k])])

\* C24 as stated: for every attribute whose name matches and whose value is
\* a hexadecimal numeral h with 0 <= h <= usize::MAX, as_ver returns
\* Some(h + 1), the sum being the mathematical one (no overflow, no wrap to
\* 0, so never less than 1); a value that is no hexadecimal numeral decodes
\* to None.
C24_HexValuePlusOne ==
  (phase = "asver" /\ res.asked = res.attr.name) =>
    /\ (HexNumeral(res.attr.value) /\ Len(HexValue(res.attr.value)) <= UsizeHexDigits) =>
         /\ res.back = SomeVer(UsizeInc(HexValue(res.attr.value)))
         /\ res.back.ver # << >>
    /\ ~HexNumeral(res.attr.value) => res.back = NoneVer

\* C13 as stated: wherever a 32-byte id is expected, a text that does not
\* supply exactly 64 hexadecimal digits makes the parse return an error.
C13_MalformedIdFails == phase = "malformed" => ~res.ok

\* ------------------------------------------------------------------------
\* Specifications
\* ------------------------------------------------------------------------

IfaceNext ==
  \/ AddIfaceAnn \/ AddMethod \/ AddSigAnn \/ AddArg \/ AddArgAnn
  \/ SetArg \/ RenameMethod \/ SwapParams \/ ReplaceIfaceAnn
  \/ Render \/ Write \/ Parse \/ ParseResTy
  \/ ParseMalformedId \/ FromVer \/ ParseAttrText \/ Rerender \/ WriteTwice
  \/ ParseArgText \/ ParseAttrsText \/ AsVer \/ ParseAnnotatedPrim


\* The interface variables when no interface is being built.
IfaceIdle ==
  /\ iface = Interface(EmptyMap, << >>)
  /\ phase = "idle"
  /\ text = NoText
  /\ res = NoRes

\* The type grammar: an interface is built, rendered or written, and parsed.
InitIface == IfaceInit /\ MangleIdle /\ MergeIdle
SpecIface == InitIface /\ [][IfaceNext]_vars

\* Mangling: an Arity or Param is built, mangled and demangled.
InitMangle == IfaceIdle /\ MangleInit /\ MergeIdle
SpecMangle == InitMangle /\ [][MangleNext]_vars

\* Merging: three Info values are built and merged.
MergeNext ==
  \/ PushA \/ PushB \/ PushC \/ AddEmptyA \/ DoMerge \/ ShowInfo \/ ParseInfo
  \/ ShowEntry \/ ReadLines

InitMerge == IfaceIdle /\ MangleIdle /\ MergeInit
SpecMerge == InitMerge /\ [][MergeNext]_vars
====
